---- MODULE Spec2Model ----
(***************************************************************************)
(* A model of the ingestion scripts (feed, feed-sitemap), the ingestion    *)
(* service (ingestDirectory, ingestFile, ingestCSV, ingestSitemap) and the *)
(* merge-db script of bun-vector-mcp, of its HTTP server (/search, /ask,   *)
(* /ask/stream), of the order of the backend calls of one ingestion and of *)
(* the sitemap crawl (extractAllUrls).  Spec is the ingestion, SpecMerge   *)
(* the merge, SpecServer the server, SpecCalls one ingestion run seen call *)
(* by call and SpecSitemap one call of extractAllUrls.                     *)
(*                                                                         *)
(* Texts are sequences of one-character strings; string concatenation is   *)
(* sequence concatenation.  The embedding model, the question generator,   *)
(* the browser and the storage engine are external: each call to them is   *)
(* one step whose outcome (a value, or a thrown error) is chosen           *)
(* nondeterministically; thrown errors are counted by faults.              *)
(***************************************************************************)
EXTENDS Integers, Sequences, FiniteSets, TLC

\* ------------------------------------------------------------------ bounds
\* Number of script runs (processes started one after the other on one store).
MaxRuns == 2
\* Number of external calls that may throw (or degrade) over one behaviour.
MaxFaults == 1
\* Chunk-size threshold, scaled down from the configured number of characters.
CHUNK_SIZE == 2
\* Questions asked of the language model per chunk, scaled down.
QUESTIONS_PER_CHUNK == 2
\* Number of source databases on the merge-db command line.
MaxSources == 2
\* Number of content-delta events of one streamed answer.
MaxDeltas == 3
\* The maxDepth extractAllUrls is called with, scaled down.
MaxDepth == 2

\* --------------------------------------------------------------- constants
USE_SEMANTIC_CHUNKING == FALSE
\* The embedding models the configuration may name, oldest first, and their
\* dimension; the configuration is only ever changed to a newer model.
EmbeddingModels == {"m1", "m2"}
NewerModels(m) == IF m = "m1" THEN {"m1", "m2"} ELSE {"m2"}
ModelDim(m) == IF m = "m1" THEN 2 ELSE 3

\* -------------------------------------------------------------------- text
WhiteSpace == {" ", "\n"}
\* !t.trim()
Blank(t) == \A k \in 1..Len(t) : t[k] \in WhiteSpace

RECURSIVE TrimStart(_)
TrimStart(t) == IF t # <<>> /\ Head(t) \in WhiteSpace THEN TrimStart(Tail(t)) ELSE t

RECURSIVE TrimEnd(_)
TrimEnd(t) ==
  IF t # <<>> /\ t[Len(t)] \in WhiteSpace THEN TrimEnd(SubSeq(t, 1, Len(t) - 1)) ELSE t

\* String.prototype.trim
Trim(t) == TrimEnd(TrimStart(t))

Lower(c) ==
  CASE c = "A" -> "a"
    [] c = "D" -> "d"
    [] c = "E" -> "e"
    [] c = "Q" -> "q"
    [] c = "T" -> "t"
    [] OTHER -> c

RECURSIVE CollapseSpaces(_)
CollapseSpaces(t) ==
  IF Len(t) < 2 THEN t
  ELSE IF t[1] \in WhiteSpace /\ t[2] \in WhiteSpace THEN CollapseSpaces(<<" ">> \o Tail(Tail(t)))
  ELSE <<t[1]>> \o CollapseSpaces(Tail(t))

\* utils/text stripHtml: the text without its tags.
IsTag(c) == c \in {"<b>", "</b>"}
stripHtml(t) == Trim(SelectSeq(t, LAMBDA c : ~IsTag(c)))

\* utils/text normalizeForEmbedding: canonical case and whitespace.
normalizeForEmbedding(t) == Trim(CollapseSpaces([k \in 1..Len(t) |-> Lower(t[k])]))

\* utils/text chunkText: fixed-size split at the size boundary.
RECURSIVE chunkText(_)
chunkText(t) ==
  IF Len(t) <= CHUNK_SIZE THEN (IF Blank(t) THEN <<>> ELSE <<t>>)
  ELSE <<SubSeq(t, 1, CHUNK_SIZE)>> \o chunkText(SubSeq(t, CHUNK_SIZE + 1, Len(t)))

\* utils/text semanticChunking: no topic model here, so the documented
\* fall-back to fixed-size splitting is what it does.
semanticChunking(t) == chunkText(t)

\* A faulty variant: every text goes through the splitter, which leaves the
\* white space around a chunk out.
SplitIntoChunksAlways(content) == chunkText(Trim(content))

\* ingest.ts: content.length > CHUNK_SIZE ? (semantic | fixed) : [content]
SplitIntoChunks(content) ==
  IF Len(content) > CHUNK_SIZE
  THEN (IF USE_SEMANTIC_CHUNKING THEN semanticChunking(content) ELSE chunkText(content))
  ELSE <<content>>

\* ------------------------------------------------------ external services
\* services/embeddings generateEmbeddings: one vector per input text, a pure
\* function of (text, model version).
Embed(m, t) == [model |-> m, dim |-> ModelDim(m), of |-> t]
generateEmbeddings(m, texts) == [k \in 1..Len(texts) |-> Embed(m, texts[k])]

\* The j-th question the language model writes for a chunk.
Question(chunk, j) == <<"Q", ToString(j), " ">> \o chunk
\* services/questions generateQuestions, by the number of questions obtained:
\* QUESTIONS_PER_CHUNK normally, fewer when the model degrades, none when
\* generation fails.
QuestionList(chunk, n) == [j \in 1..n |-> Question(chunk, j)]

\* db/schema insertDocument: append one record with a generated identifier.
NextId(d) == IF d = <<>> THEN 1 ELSE d[Len(d)].id + 1
insertDocument(d, filename, content, chunk, embedding, chunkIdx, chunkSize, questions, questionEmbeddings, metadata, origin) ==
  Append(d, [id |-> NextId(d), filename |-> filename, content |-> content,
             chunk_text |-> chunk, embedding |-> embedding,
             chunk_index |-> chunkIdx, chunk_size |-> chunkSize,
             hypothetical_questions |-> questions,
             question_embeddings |-> questionEmbeddings,
             chunk_metadata |-> metadata,
             origin |-> origin])

\* db/schema clearDatabase: removes all rows.
clearDatabase(d) == <<>>
\* db/schema getDocumentCount
getDocumentCount(d) == Len(d)

\* ------------------------------------------------------------- file system
LongText == [k \in 1..(CHUNK_SIZE + 1) |-> IF k = 1 THEN "A" ELSE IF k = CHUNK_SIZE + 1 THEN "c" ELSE "b"]
ShortText == <<"D">>
OtherText == <<"E">>
BlankText == <<" ">>
\* A line of text as long as the threshold, with its line end.
LineText == [k \in 1..CHUNK_SIZE |-> IF k = CHUNK_SIZE THEN "\n" ELSE "D"]

SourceDirs == {"docs", "tables", "theses", "empty", "missing"}

\* Bun.Glob(...).scan({cwd}): the supported files below a directory.
Glob(directoryPath) ==
  CASE directoryPath = "docs" -> << <<"a", "x.txt">>, <<"n.txt">>, <<"b", "x.txt">> >>
    [] directoryPath = "tables" -> << <<"e.csv">> >>
    [] directoryPath = "theses" -> << <<"z.csv">>, <<"d.csv">> >>
    [] OTHER -> <<>>

\* filePath.split('/').pop() || filePath
Basename(filePath) == IF filePath = <<>> THEN filePath ELSE <<filePath[Len(filePath)]>>
\* filePath.toLowerCase().split('.').pop()
ExtOf(filePath) ==
  IF Basename(filePath) \in {<<"e.csv">>, <<"d.csv">>, <<"z.csv">>} THEN "csv" ELSE "txt"

\* String.prototype.indexOf on texts, 0-based, -1 when absent.
IndexOf(t, sub) ==
  LET hits == {k \in 0..(Len(t) - Len(sub)) : SubSeq(t, k + 1, k + Len(sub)) = sub}
  IN IF hits = {} THEN -1 ELSE CHOOSE k \in hits : \A h \in hits : k <= h

\* utils/csvs parseCSV: the rows of a CSV file, each a map from column to cell.
CsvRows(filePath) ==
  CASE filePath = <<"tables", "e.csv">> ->
         << [title |-> <<"T">>, content |-> <<"<b>", "D", "</b>">>],
            [title |-> <<>>, content |-> <<" ">>],
            [title |-> <<"T">>, content |-> <<>>],
            [title |-> <<"T">>, content |-> <<>>] >>
    [] filePath = <<"theses", "z.csv">> ->
         << [title |-> <<>>, content |-> BlankText, thesis |-> <<>>] >>
    [] filePath = <<"theses", "d.csv">> ->
         << [title |-> <<>>, content |-> ShortText, thesis |-> <<" ", "Q", " ">>],
            [title |-> <<>>, content |-> OtherText, thesis |-> <<>>] >>
    [] OTHER -> <<>>

\* utils/csvs detectCSVSchema: the column playing each role, "" when none.
detectCSVSchema(columns) ==
  [c \in {"title", "content", "link", "collection", "html", "thesis"} |-> IF c \in columns THEN c ELSE ""]

\* schema.x ? row[schema.x] || '' : ''
Cell(schema, row, role) == IF schema[role] # "" THEN row[schema[role]] ELSE <<>>

\* parts.join('\n\n')
RECURSIVE Join(_)
Join(parts) ==
  IF parts = <<>> THEN <<>>
  ELSE IF Len(parts) = 1 THEN parts[1]
  ELSE parts[1] \o <<"\n", "\n">> \o Join(Tail(parts))

\* ---------------------------------------------------------------- the web
\* A URL string is its scheme followed by the rest, piece by piece.
SitemapXml == <<"https:", "//s", "/sitemap.xml">>
UrlHome == <<"https:", "//s", "/p1">>
UrlFtp == <<"ftp:", "//s", "/f">>
UrlAbout == <<"https:", "//s", "/p2", "#top">>
UrlBroken == <<"not a url">>
UrlLong == <<"http:", "//s", "/p3", "/">>

\* new URL(urlString) does not throw.
ParsesAsUrl(urlString) == urlString # <<>> /\ urlString[1] \in {"http:", "https:", "ftp:"}

\* A faulty variant: every string that parses is accepted.
isValidUrlAnyProtocol(urlString) == ParsesAsUrl(urlString)
\* utils/web isValidUrl: parses, and the protocol is http or https.
isValidUrl(urlString) == ParsesAsUrl(urlString) /\ urlString[1] \in {"http:", "https:"}

\* utils/web normalizeUrl: without fragment and trailing slash; the string
\* itself when it does not parse.
IsFragment(c) == c \in {"#top"}
normalizeUrl(urlString) ==
  IF ParsesAsUrl(urlString)
  THEN LET normalized == SelectSeq(urlString, LAMBDA c : ~IsFragment(c))
       IN IF normalized[Len(normalized)] = "/" THEN SubSeq(normalized, 1, Len(normalized) - 1) ELSE normalized
  ELSE urlString

\* utils/sitemap extractAllUrls: the <url> entries of the sitemap, in order.
extractAllUrls(sitemapUrl) ==
  IF sitemapUrl = SitemapXml
  THEN [k \in 1..5 |-> [loc |-> <<UrlHome, UrlFtp, UrlAbout, UrlBroken, UrlLong>>[k], lastmod |-> "", priority |-> ""]]
  ELSE <<>>

\* What the browser shows at a URL: the title and the body text of the page.
PageAt(url) ==
  CASE url = UrlAbout -> [title |-> <<"H">>, text |-> LongText, description |-> <<"d">>]
    [] OTHER -> [title |-> <<>>, text |-> BlankText, description |-> <<>>]

\* utils/text extractTextFromFile
FileText(filePath) ==
  CASE filePath = <<"docs", "a", "x.txt">> -> LongText
    [] filePath = <<"docs", "b", "x.txt">> -> LineText
    [] OTHER -> BlankText

\* ------------------------------------------------------------------- state
VARIABLES
  embeddingModel, \* the embedding model the configuration names
  db,        \* the store: the rows of the documents table, in insertion order
  runs,      \* script processes started so far
  faults,    \* external calls that threw or degraded so far
  pc,        \* where the running script is ("idle": no script is running)
  script,    \* the running script: its arguments and process-wide settings (faultsBefore: history)
  qgInit,    \* the question generator of this process is initialized
  dir,       \* ingestDirectory's locals
  file,      \* ingestFile's locals
  csv,       \* ingestCSV's locals
  site,      \* ingestSitemap's locals
  genFailed, \* history: <<origin, chunk index>> whose question generation failed in this run
  out,       \* what the script that just finished reported (none while one runs)
  targetDb,  \* merge-db: the target database, its documents and vec_embeddings tables
  mrg,       \* merge-db: the locals of main
  srv,       \* the server: the request being served and what its caller got
  calls,     \* one ingestion run seen call by call: its position and the calls in flight
  crawl      \* one call of extractAllUrls: its frames and what it fetched

mergeVars == <<targetDb, mrg>>
serverVars == <<srv>>
callVars == <<calls>>
sitemapVars == <<crawl>>
ingestVars == <<embeddingModel, db, runs, script, qgInit, dir, file, csv, site, genFailed>>
vars == <<embeddingModel, db, runs, faults, pc, script, qgInit, dir, file, csv, site, genFailed, out, targetDb, mrg, srv, calls, crawl>>

NoScript == [name |-> "none", resumeMode |-> FALSE, source |-> <<>>, modelVersion |-> "m1", beforeCount |-> 0, faultsBefore |-> 0]
NoDir == [files |-> <<>>, idx |-> 0, results |-> <<>>]
NoFile == [filePath |-> <<>>, filename |-> <<>>, content |-> <<>>, chunks |-> <<>>, contentEmbeddings |-> <<>>, allQuestions |-> <<>>, allQuestionEmbeddings |-> <<>>, i |-> 0]
NoCsv == [rows |-> <<>>, schema |-> detectCSVSchema({}), processedCount |-> 0, rowIdx |-> 0, combinedText |-> <<>>, docIdentifier |-> <<>>, thesisField |-> <<>>, chunks |-> <<>>, chunkIdx |-> 0, chunkEmbedding |-> <<>>, questions |-> <<>>, questionEmbeddings |-> <<>>]
NoPage == [title |-> <<>>, text |-> <<>>, description |-> <<>>]
NoSite == [sitemapUrls |-> <<>>, results |-> <<>>, browser |-> "none", page |-> "none", looped |-> FALSE, i |-> 0, normalizedUrl |-> <<>>, extracted |-> NoPage, chunks |-> <<>>, chunkIdx |-> 0, chunkEmbedding |-> <<>>, questions |-> <<>>, questionEmbeddings |-> <<>>, pending |-> "none", navigated |-> {}]
NoOut == [name |-> "none", exit |-> "none", source |-> <<>>, results |-> <<>>, found |-> 0, successful |-> 0, failed |-> 0, skipped |-> 0, totalChunks |-> 0, beforeCount |-> 0, afterCount |-> 0, browser |-> "none", page |-> "none", looped |-> FALSE]

\* IngestResult
Result(filename, chunks, success, error) ==
  [filename |-> filename, chunks_created |-> chunks, success |-> success, error |-> error]

CanFail == faults < MaxFaults

\* --------------------------------------------------------- the feed script
\* main catches nothing itself: main().catch logs 'Fatal error' and exits 1.
Fatal(name) ==
  /\ out' = [NoOut EXCEPT !.name = name, !.exit = "fatal"]
  /\ pc' = "idle"
  /\ script' = NoScript

\* feed main, up to the call of ingestDirectory: arguments, initializeDatabase,
\* clear or resume, initializeEmbeddings.
FeedMain ==
  /\ pc = "idle"
  /\ runs < MaxRuns
  /\ runs' = runs + 1
  /\ \E clearMode, resumeMode \in BOOLEAN, sourceDir \in SourceDirs, m \in NewerModels(embeddingModel) :
       /\ embeddingModel' = m
       /\ db' = IF resumeMode THEN db
                ELSE IF clearMode THEN clearDatabase(db)
                ELSE clearDatabase(db)
       /\ \/ /\ script' = [name |-> "feed", resumeMode |-> resumeMode, source |-> <<sourceDir>>, modelVersion |-> m, beforeCount |-> getDocumentCount(db'), faultsBefore |-> faults]
             /\ pc' = "ingestDirectory"
             /\ out' = NoOut
             /\ UNCHANGED faults
          \/ /\ CanFail
             /\ faults' = faults + 1
             /\ Fatal("feed")
  /\ qgInit' = FALSE
  /\ genFailed' = {}
  /\ UNCHANGED <<dir, file, csv, site, mergeVars, serverVars, callVars, sitemapVars>>

\* ingestDirectory, up to the loop: the glob scan and the empty-directory return.
\* The third argument the feed script passes (resumeMode) is no parameter of
\* ingestDirectory and is dropped.
IngestDirectoryScan ==
  /\ pc = "ingestDirectory"
  /\ LET directoryPath == script.source
         files == Glob(directoryPath[1])
     IN IF directoryPath = <<"missing">> \/ Len(files) = 0
        THEN /\ dir' = NoDir
             /\ pc' = "feedSummary"
        ELSE /\ dir' = [files |-> files, idx |-> 1, results |-> <<>>]
             /\ pc' = "dirLoop"
  /\ UNCHANGED <<embeddingModel, db, runs, faults, script, qgInit, file, csv, genFailed, out, site, mergeVars, serverVars, callVars, sitemapVars>>

\* for (const file of files): the call of ingestFile with its routing by
\* extension, or the return of results after the last file.
IngestDirectoryLoop ==
  /\ pc = "dirLoop"
  /\ IF dir.idx <= Len(dir.files)
     THEN LET fullPath == script.source \o dir.files[dir.idx]
          IN /\ file' = [NoFile EXCEPT !.filePath = fullPath, !.filename = Basename(fullPath)]
             /\ pc' = IF ExtOf(fullPath) = "csv" THEN "csv.parse" ELSE "file.extract"
     ELSE /\ pc' = "feedSummary"
          /\ file' = NoFile
  /\ UNCHANGED <<embeddingModel, db, runs, faults, script, qgInit, dir, csv, genFailed, out, site, mergeVars, serverVars, callVars, sitemapVars>>

\* ingestFile returned a result: results.push(result), next file.
DirPush(result) ==
  /\ dir' = [dir EXCEPT !.results = Append(@, result), !.idx = @ + 1]
  /\ pc' = "dirLoop"
  /\ file' = NoFile

\* ingestFile threw an IngestionError: no handler in the loop, the catch of
\* ingestDirectory logs it and returns the results gathered so far.
DirCatch ==
  /\ dir' = dir
  /\ pc' = "feedSummary"
  /\ file' = NoFile

RECURSIVE SumChunks(_)
SumChunks(results) ==
  IF results = <<>> THEN 0 ELSE Head(results).chunks_created + SumChunks(Tail(results))

\* ------------------------------------------------------------- ingestFile
\* What a call of generateQuestions on an initialized generator can give:
\* the number of questions, whether generation failed (then none: the chunk is
\* indexed without questions), and whether that counts as a fault.
QuestionOutcomes ==
  {[n |-> QUESTIONS_PER_CHUNK, failed |-> FALSE, cost |-> 0]}
    \cup (IF CanFail
          THEN {[n |-> k, failed |-> FALSE, cost |-> 1] : k \in 1..(QUESTIONS_PER_CHUNK - 1)}
                 \cup {[n |-> 0, failed |-> TRUE, cost |-> 1]}
          ELSE {})

\* A faulty variant: the last question is left without its embedding.
QuestionEmbeddingsDroppingLast(m, questions) ==
  IF Len(questions) > 0
  THEN generateEmbeddings(m, [k \in 1..(Len(questions) - 1) |-> normalizeForEmbedding(questions[k])])
  ELSE <<>>

\* questions.map(q => normalizeForEmbedding(q)), then generateEmbeddings; no
\* call for an empty list.
QuestionEmbeddings(m, questions) ==
  IF Len(questions) > 0
  THEN generateEmbeddings(m, [k \in 1..Len(questions) |-> normalizeForEmbedding(questions[k])])
  ELSE <<>>

\* ingestFile: extractTextFromFile, the empty-content returns, the split into
\* chunks, initializeQuestionGenerator.
IngestFileExtract ==
  /\ pc = "file.extract"
  /\ LET content == FileText(file.filePath)
         chunks == SplitIntoChunks(content)
     IN \/ /\ CanFail
           /\ faults' = faults + 1
           /\ DirCatch
           /\ UNCHANGED qgInit
        \/ /\ Blank(content)
           /\ DirPush(Result(file.filename, 0, FALSE, "No text content found in file"))
           /\ UNCHANGED <<faults, qgInit>>
        \/ /\ ~Blank(content)
           /\ IF Len(chunks) = 0
              THEN /\ DirPush(Result(file.filename, 0, FALSE, "No valid chunks created from content"))
                   /\ UNCHANGED qgInit
              ELSE /\ file' = [file EXCEPT !.content = content, !.chunks = chunks]
                   /\ qgInit' = TRUE
                   /\ pc' = "file.embed"
                   /\ dir' = dir
           /\ UNCHANGED faults
  /\ UNCHANGED <<embeddingModel, db, runs, script, csv, genFailed, out, site, mergeVars, serverVars, callVars, sitemapVars>>

\* ingestFile: the content embeddings of all chunks, one batch call.
IngestFileEmbed ==
  /\ pc = "file.embed"
  /\ \/ /\ file' = [file EXCEPT !.contentEmbeddings = generateEmbeddings(script.modelVersion, [k \in 1..Len(file.chunks) |-> normalizeForEmbedding(file.chunks[k])]), !.i = 0]
        /\ pc' = "file.questions"
        /\ UNCHANGED <<faults, dir>>
     \/ /\ CanFail
        /\ faults' = faults + 1
        /\ DirCatch
  /\ UNCHANGED <<embeddingModel, db, runs, script, qgInit, csv, genFailed, out, site, mergeVars, serverVars, callVars, sitemapVars>>

\* ingestFile: generateQuestions for chunk i.
IngestFileQuestions ==
  /\ pc = "file.questions"
  /\ \E o \in QuestionOutcomes :
       /\ faults' = faults + o.cost
       /\ genFailed' = IF o.failed THEN genFailed \cup {<<file.filePath, file.i>>} ELSE genFailed
       /\ file' = [file EXCEPT !.allQuestions = Append(@, QuestionList(file.chunks[file.i + 1], o.n)),
                                !.i = IF file.i + 1 < Len(file.chunks) THEN file.i + 1 ELSE 0]
       /\ pc' = IF file.i + 1 < Len(file.chunks) THEN "file.questions" ELSE "file.qembed"
  /\ UNCHANGED <<embeddingModel, db, runs, script, qgInit, dir, csv, out, site, mergeVars, serverVars, callVars, sitemapVars>>

\* A faulty variant: the insert loop starts after the first chunk's questions
\* are embedded.
AfterFirstQuestionEmbeddings(i, chunks) == "file.insert"
\* Where ingestFile goes after the question embeddings of chunk i: the next
\* entry of allQuestions, and the insert loop only after the last.
AfterQuestionEmbeddings(i, chunks) == IF i + 1 < Len(chunks) THEN "file.qembed" ELSE "file.insert"

\* ingestFile: the embeddings of the questions of chunk i.
IngestFileQuestionEmbeddings ==
  /\ pc = "file.qembed"
  /\ LET questions == file.allQuestions[file.i + 1]
     IN \/ /\ file' = [file EXCEPT !.allQuestionEmbeddings = Append(@, QuestionEmbeddings(script.modelVersion, questions)),
                                     !.i = IF file.i + 1 < Len(file.chunks) THEN file.i + 1 ELSE 0]
           /\ pc' = AfterQuestionEmbeddings(file.i, file.chunks)
           /\ UNCHANGED <<faults, dir>>
        \/ /\ Len(questions) > 0
           /\ CanFail
           /\ faults' = faults + 1
           /\ DirCatch
  /\ UNCHANGED <<embeddingModel, db, runs, script, qgInit, csv, genFailed, out, site, mergeVars, serverVars, callVars, sitemapVars>>

\* The chunk metadata ingestFile stores; ingestion_date is the logical time
\* of the run.
FileMetadata(content, chunks, i, m, date) ==
  [chunk_index |-> i, total_chunks |-> Len(chunks),
   char_start |-> IndexOf(content, chunks[i + 1]),
   char_end |-> IndexOf(content, chunks[i + 1]) + Len(chunks[i + 1]),
   embedding_model |-> m,
   chunking_strategy |-> IF USE_SEMANTIC_CHUNKING THEN "semantic" ELSE "fixed-size",
   ingestion_date |-> date]

\* A faulty variant: a chunk without questions is not stored.
FileInsertSkippingUnquestioned(d, f, i, m, date) ==
  IF f.allQuestions[i + 1] = <<>> THEN d
  ELSE insertDocument(d, f.filename, f.content, f.chunks[i + 1], f.contentEmbeddings[i + 1], i, Len(f.chunks[i + 1]), f.allQuestions[i + 1], f.allQuestionEmbeddings[i + 1], FileMetadata(f.content, f.chunks, i, m, date), f.filePath)

\* A faulty variant: every chunk is stored with the questions of the first one.
FileInsertFirstQuestions(d, f, i, m, date) ==
  insertDocument(d, f.filename, f.content, f.chunks[i + 1], f.contentEmbeddings[i + 1], i, Len(f.chunks[i + 1]), f.allQuestions[1], f.allQuestionEmbeddings[1], FileMetadata(f.content, f.chunks, i, m, date), f.filePath)

\* The record ingestFile inserts for chunk i.
FileInsert(d, f, i, m, date) ==
  insertDocument(d, f.filename, f.content, f.chunks[i + 1], f.contentEmbeddings[i + 1], i, Len(f.chunks[i + 1]), f.allQuestions[i + 1], f.allQuestionEmbeddings[i + 1], FileMetadata(f.content, f.chunks, i, m, date), f.filePath)

\* ingestFile: insertDocument for chunk i; after the last chunk the success result.
IngestFileInsert ==
  /\ pc = "file.insert"
  /\ \/ /\ db' = FileInsert(db, file, file.i, script.modelVersion, runs)
        /\ IF file.i + 1 < Len(file.chunks)
           THEN /\ file' = [file EXCEPT !.i = file.i + 1]
                /\ UNCHANGED <<pc, dir>>
           ELSE DirPush(Result(file.filename, Len(file.chunks), TRUE, ""))
        /\ UNCHANGED faults
     \/ /\ CanFail
        /\ faults' = faults + 1
        /\ DirCatch
        /\ UNCHANGED db
  /\ UNCHANGED <<embeddingModel, runs, script, qgInit, csv, genFailed, out, site, mergeVars, serverVars, callVars, sitemapVars>>

\* -------------------------------------------------------------- ingestCSV
\* services/questions generateQuestions on a generator that was never
\* initialized: the backend is unavailable and the call throws.
GeneratorUnavailable == ~qgInit

\* ingestCSV threw (its catch wraps the error in an IngestionError; the call
\* in ingestFile is outside ingestFile's try) or returned.
CsvThrow == DirCatch /\ csv' = NoCsv
CsvReturn(result) == DirPush(result) /\ csv' = NoCsv

\* ingestCSV up to the row loop: read and parse, schema detection,
\* initializeQuestionGenerator unless the file has a thesis column.
IngestCSVParse ==
  /\ pc = "csv.parse"
  /\ LET rows == CsvRows(file.filePath)
         columns == IF rows = <<>> THEN {} ELSE DOMAIN rows[1]
         schema == detectCSVSchema(columns)
     IN \/ /\ CanFail
           /\ faults' = faults + 1
           /\ CsvThrow
           /\ UNCHANGED qgInit
        \/ /\ IF Len(rows) = 0
              THEN /\ CsvReturn(Result(file.filename, 0, FALSE, "No rows found in CSV file"))
                   /\ UNCHANGED qgInit
              ELSE /\ csv' = [NoCsv EXCEPT !.rows = rows, !.schema = schema]
                   /\ qgInit' = IF schema["thesis"] = "" THEN TRUE ELSE qgInit
                   /\ pc' = "csv.row"
                   /\ UNCHANGED <<dir, file>>
           /\ UNCHANGED faults
        \/ /\ Len(rows) > 0
           /\ schema["thesis"] = ""
           /\ CanFail
           /\ faults' = faults + 1
           /\ CsvThrow
           /\ UNCHANGED qgInit
  /\ UNCHANGED <<embeddingModel, db, runs, script, genFailed, out, site, mergeVars, serverVars, callVars, sitemapVars>>

\* The combined text of a row: title, stripped content, stripped html when it
\* differs, link, collection; blank parts dropped, joined by an empty line.
CombinedText(schema, row) ==
  LET title == Cell(schema, row, "title")
      contentClean == stripHtml(Cell(schema, row, "content"))
      htmlField == Cell(schema, row, "html")
      htmlClean == IF htmlField # <<>> THEN stripHtml(htmlField) ELSE <<>>
      link == Cell(schema, row, "link")
      collection == Cell(schema, row, "collection")
      textParts == <<title, contentClean>>
                     \o (IF htmlClean # <<>> /\ htmlClean # contentClean THEN <<htmlClean>> ELSE <<>>)
                     \o (IF link # <<>> THEN <<link>> ELSE <<>>)
                     \o (IF collection # <<>> THEN <<collection>> ELSE <<>>)
  IN Join(SelectSeq(textParts, LAMBDA part : ~Blank(part)))

\* title ? `${filename} - ${title}` : `${filename} - Row ${rowIdx + 1}`
DocIdentifier(filename, title, rowIdx) ==
  IF title # <<>> THEN filename \o <<" - ">> \o title
  ELSE filename \o <<" - Row ", ToString(rowIdx + 1)>>

\* chunks.length > 1 ? `${docIdentifier} [Chunk ${chunkIdx + 1}/${chunks.length}]` : docIdentifier
ChunkDocId(docIdentifier, chunkIdx, total) ==
  IF total > 1
  THEN docIdentifier \o <<" [Chunk ", ToString(chunkIdx + 1), "/", ToString(total), "]">>
  ELSE docIdentifier

\* A row with a thesis is kept whole, any other row is split like a file.
RowChunks(thesisField, combinedText) ==
  IF thesisField # <<>> /\ ~Blank(thesisField) THEN <<combinedText>> ELSE SplitIntoChunks(combinedText)

\* ingestCSV, head of the row loop: the next row's text, identifier and
\* chunks; an empty row is skipped; after the last row the success result.
IngestCSVRow ==
  /\ pc = "csv.row"
  /\ IF csv.rowIdx < Len(csv.rows)
     THEN LET row == csv.rows[csv.rowIdx + 1]
              combinedText == CombinedText(csv.schema, row)
              thesisField == Cell(csv.schema, row, "thesis")
          IN IF Blank(combinedText)
             THEN /\ csv' = [csv EXCEPT !.rowIdx = @ + 1]
                  /\ UNCHANGED <<pc, dir, file>>
             ELSE /\ csv' = [csv EXCEPT !.combinedText = combinedText,
                                         !.docIdentifier = DocIdentifier(file.filename, Cell(csv.schema, row, "title"), csv.rowIdx),
                                         !.thesisField = thesisField,
                                         !.chunks = RowChunks(thesisField, combinedText),
                                         !.chunkIdx = 0]
                  /\ pc' = "csv.embed"
                  /\ UNCHANGED <<dir, file>>
     ELSE CsvReturn(Result(file.filename, csv.processedCount, TRUE, ""))
  /\ UNCHANGED <<embeddingModel, db, runs, faults, script, qgInit, genFailed, out, site, mergeVars, serverVars, callVars, sitemapVars>>

\* ingestCSV: the content embedding of the chunk.
IngestCSVEmbed ==
  /\ pc = "csv.embed"
  /\ \/ /\ csv' = [csv EXCEPT !.chunkEmbedding = generateEmbeddings(script.modelVersion, <<normalizeForEmbedding(csv.chunks[csv.chunkIdx + 1])>>)[1]]
        /\ pc' = "csv.questions"
        /\ UNCHANGED <<faults, dir, file>>
     \/ /\ CanFail
        /\ faults' = faults + 1
        /\ CsvThrow
  /\ UNCHANGED <<embeddingModel, db, runs, script, qgInit, genFailed, out, site, mergeVars, serverVars, callVars, sitemapVars>>

\* ingestCSV: the thesis of the row as the only question, or generateQuestions.
IngestCSVQuestions ==
  /\ pc = "csv.questions"
  /\ IF csv.thesisField # <<>> /\ ~Blank(csv.thesisField)
     THEN /\ csv' = [csv EXCEPT !.questions = <<Trim(csv.thesisField)>>]
          /\ pc' = "csv.qembed"
          /\ UNCHANGED <<faults, genFailed, dir, file>>
     ELSE IF GeneratorUnavailable
     THEN /\ CsvThrow
          /\ UNCHANGED <<faults, genFailed>>
     ELSE \E o \in QuestionOutcomes :
            /\ faults' = faults + o.cost
            /\ genFailed' = IF o.failed THEN genFailed \cup {<<file.filePath \o <<ToString(csv.rowIdx)>>, csv.chunkIdx>>} ELSE genFailed
            /\ csv' = [csv EXCEPT !.questions = QuestionList(csv.chunks[csv.chunkIdx + 1], o.n)]
            /\ pc' = "csv.qembed"
            /\ UNCHANGED <<dir, file>>
  /\ UNCHANGED <<embeddingModel, db, runs, script, qgInit, out, site, mergeVars, serverVars, callVars, sitemapVars>>

\* ingestCSV: the embeddings of the questions.
IngestCSVQuestionEmbeddings ==
  /\ pc = "csv.qembed"
  /\ \/ /\ csv' = [csv EXCEPT !.questionEmbeddings = QuestionEmbeddings(script.modelVersion, csv.questions)]
        /\ pc' = "csv.insert"
        /\ UNCHANGED <<faults, dir, file>>
     \/ /\ Len(csv.questions) > 0
        /\ CanFail
        /\ faults' = faults + 1
        /\ CsvThrow
  /\ UNCHANGED <<embeddingModel, db, runs, script, qgInit, genFailed, out, site, mergeVars, serverVars, callVars, sitemapVars>>

\* The chunk metadata ingestCSV stores (the csv_<column> copies of the cells left out).
CsvMetadata(c, m, date) ==
  [source_type |-> "csv", row_index |-> c.rowIdx, embedding_model |-> m,
   ingestion_date |-> date, schema_mapping |-> c.schema,
   chunk_index |-> c.chunkIdx, total_chunks_in_row |-> Len(c.chunks),
   is_chunked |-> Len(c.chunks) > 1]

\* The record ingestCSV inserts for the current chunk.
CsvInsert(d, c, filePath, m, date) ==
  insertDocument(d, ChunkDocId(c.docIdentifier, c.chunkIdx, Len(c.chunks)), c.combinedText, c.chunks[c.chunkIdx + 1], c.chunkEmbedding, c.chunkIdx, Len(c.chunks[c.chunkIdx + 1]), c.questions, c.questionEmbeddings, CsvMetadata(c, m, date), filePath \o <<ToString(c.rowIdx)>>)

\* ingestCSV: insertDocument, processedCount++, next chunk or next row.
IngestCSVInsert ==
  /\ pc = "csv.insert"
  /\ \/ /\ db' = CsvInsert(db, csv, file.filePath, script.modelVersion, runs)
        /\ csv' = [csv EXCEPT !.processedCount = @ + 1,
                              !.chunkIdx = IF csv.chunkIdx + 1 < Len(csv.chunks) THEN @ + 1 ELSE 0,
                              !.rowIdx = IF csv.chunkIdx + 1 < Len(csv.chunks) THEN @ ELSE @ + 1,
                              !.chunkEmbedding = <<>>, !.questions = <<>>, !.questionEmbeddings = <<>>]
        /\ pc' = IF csv.chunkIdx + 1 < Len(csv.chunks) THEN "csv.embed" ELSE "csv.row"
        /\ UNCHANGED <<faults, dir, file>>
     \/ /\ CanFail
        /\ faults' = faults + 1
        /\ CsvThrow
        /\ UNCHANGED db
  /\ UNCHANGED <<embeddingModel, runs, script, qgInit, genFailed, out, site, mergeVars, serverVars, callVars, sitemapVars>>

\* feed main after ingestDirectory: the summary, db.close().
FeedSummary ==
  /\ pc = "feedSummary"
  /\ LET results == dir.results
         IsOk(r) == r.success
         IsFailed(r) == ~r.success
         IsSkipped(r) == r.error = "Already processed (skipped)"
         Counted(r) == r.success /\ r.error # "Already processed (skipped)"
     IN out' = [NoOut EXCEPT !.name = "feed", !.exit = "ok", !.source = script.source,
                !.results = results,
                !.found = Len(dir.files),
                !.successful = Len(SelectSeq(results, IsOk)),
                !.failed = Len(SelectSeq(results, IsFailed)),
                !.skipped = Len(SelectSeq(results, IsSkipped)),
                !.totalChunks = SumChunks(SelectSeq(results, Counted))]
  /\ pc' = "idle"
  /\ script' = NoScript
  /\ dir' = NoDir
  /\ UNCHANGED <<embeddingModel, db, runs, faults, qgInit, file, csv, genFailed, site, mergeVars, serverVars, callVars, sitemapVars>>

\* -------------------------------------------------- the feed-sitemap script
SitemapArgs == {<<>>, UrlBroken, SitemapXml}

\* feed-sitemap main, up to the call of ingestSitemap: the URL argument and its
\* validation, initializeDatabase, the count before, initializeEmbeddings.
\* The store is not cleared.
FeedSitemapMain ==
  /\ pc = "idle"
  /\ runs < MaxRuns
  /\ runs' = runs + 1
  /\ \E sitemapUrl \in SitemapArgs, m \in NewerModels(embeddingModel) :
       \/ /\ sitemapUrl = <<>> \/ ~ParsesAsUrl(sitemapUrl)
          /\ m = embeddingModel
          /\ embeddingModel' = m
          /\ Fatal("feed-sitemap")
          /\ UNCHANGED faults
       \/ /\ ParsesAsUrl(sitemapUrl)
          /\ embeddingModel' = m
          /\ script' = [name |-> "feed-sitemap", resumeMode |-> FALSE, source |-> sitemapUrl, modelVersion |-> m, beforeCount |-> getDocumentCount(db), faultsBefore |-> faults]
          /\ pc' = "site.extract"
          /\ out' = NoOut
          /\ UNCHANGED faults
       \/ /\ ParsesAsUrl(sitemapUrl)
          /\ embeddingModel' = m
          /\ CanFail
          /\ faults' = faults + 1
          /\ Fatal("feed-sitemap")
  /\ qgInit' = FALSE
  /\ genFailed' = {}
  /\ UNCHANGED <<db, dir, file, csv, site, mergeVars, serverVars, callVars, sitemapVars>>

\* ingestSitemap: extractAllUrls (which swallows fetch errors and then yields
\* nothing) and the return of no results for an empty sitemap.
IngestSitemapExtract ==
  /\ pc = "site.extract"
  /\ \/ /\ LET sitemapUrls == extractAllUrls(script.source)
           IN IF Len(sitemapUrls) = 0
              THEN /\ site' = [NoSite EXCEPT !.pending = "return"]
                   /\ pc' = "site.finally"
              ELSE /\ site' = [NoSite EXCEPT !.sitemapUrls = sitemapUrls]
                   /\ pc' = "site.launch"
        /\ UNCHANGED faults
     \/ /\ CanFail
        /\ faults' = faults + 1
        /\ site' = [NoSite EXCEPT !.pending = "return"]
        /\ pc' = "site.finally"
  /\ UNCHANGED <<embeddingModel, db, runs, script, qgInit, dir, file, csv, genFailed, out, mergeVars, serverVars, callVars, sitemapVars>>

\* ingestSitemap: chromium.launch and browser.newPage.
IngestSitemapLaunch ==
  /\ pc = "site.launch"
  /\ \/ /\ site' = [site EXCEPT !.browser = "open", !.page = "open"]
        /\ pc' = "site.init"
        /\ UNCHANGED faults
     \/ /\ CanFail
        /\ faults' = faults + 1
        /\ site' = [site EXCEPT !.pending = "throw"]
        /\ pc' = "site.finally"
     \/ /\ CanFail
        /\ faults' = faults + 1
        /\ site' = [site EXCEPT !.browser = "open", !.pending = "throw"]
        /\ pc' = "site.finally"
  /\ UNCHANGED <<embeddingModel, db, runs, script, qgInit, dir, file, csv, genFailed, out, mergeVars, serverVars, callVars, sitemapVars>>

\* ingestSitemap: initializeQuestionGenerator, getEmbeddingModelVersion.
IngestSitemapInit ==
  /\ pc = "site.init"
  /\ \/ /\ qgInit' = TRUE
        /\ site' = [site EXCEPT !.looped = TRUE, !.i = 0]
        /\ pc' = "site.page"
        /\ UNCHANGED faults
     \/ /\ CanFail
        /\ faults' = faults + 1
        /\ site' = [site EXCEPT !.pending = "throw"]
        /\ pc' = "site.finally"
        /\ UNCHANGED qgInit
  /\ UNCHANGED <<embeddingModel, db, runs, script, dir, file, csv, genFailed, out, mergeVars, serverVars, callVars, sitemapVars>>

\* page.goto(url) was called (history), then results.push(result).
SitePushLoaded(url, result) ==
  /\ site' = [site EXCEPT !.results = Append(@, result), !.i = @ + 1, !.navigated = @ \cup {url}]
  /\ pc' = "site.page"

\* results.push(result) and on to the next URL (the validity check's continue,
\* the empty-content continue, the end of the try block, or its catch).
SitePush(result) ==
  /\ site' = [site EXCEPT !.results = Append(@, result), !.i = @ + 1,
                          !.normalizedUrl = <<>>, !.extracted = NoPage, !.chunks = <<>>, !.chunkIdx = 0,
                          !.chunkEmbedding = <<>>, !.questions = <<>>, !.questionEmbeddings = <<>>]
  /\ pc' = "site.page"

\* A faulty variant: the catch inside the URL loop rethrows.
SiteCatchRethrowing(errorMsg) ==
  /\ site' = [site EXCEPT !.pending = "throw"]
  /\ pc' = "site.finally"

\* The catch inside the URL loop: a failure record for the page.
SiteCatch(errorMsg) == SitePush(Result(site.normalizedUrl, 0, FALSE, errorMsg))

\* ingestSitemap, head of the URL loop: validity check, page load and text
\* extraction, the split into chunks; after the last URL the return.
IngestSitemapPage ==
  /\ pc = "site.page"
  /\ IF site.i < Len(site.sitemapUrls)
     THEN LET url == site.sitemapUrls[site.i + 1].loc
              normalizedUrl == normalizeUrl(url)
              loaded == PageAt(url)
              extracted == [title |-> IF loaded.title # <<>> THEN loaded.title ELSE <<"Untitled">>,
                            text |-> Trim(loaded.text), description |-> loaded.description]
          IN \/ /\ ~isValidUrl(url)
                /\ SitePush(Result(url, 0, FALSE, "Invalid URL"))
                /\ UNCHANGED faults
             \/ /\ isValidUrl(url)
                /\ IF Len(extracted.text) = 0 \/ Blank(extracted.text)
                   THEN SitePushLoaded(url, Result(normalizedUrl, 0, FALSE, "No content extracted"))
                   ELSE /\ site' = [site EXCEPT !.normalizedUrl = normalizedUrl, !.extracted = extracted,
                                                !.chunks = SplitIntoChunks(extracted.text), !.chunkIdx = 0,
                                                !.navigated = @ \cup {url}]
                        /\ pc' = "site.embed"
                /\ UNCHANGED faults
             \/ /\ isValidUrl(url)
                /\ CanFail
                /\ faults' = faults + 1
                /\ SitePushLoaded(url, Result(normalizedUrl, 0, FALSE, "page.goto: Timeout 30000ms exceeded"))
     ELSE /\ site' = [site EXCEPT !.pending = "return"]
          /\ pc' = "site.finally"
          /\ UNCHANGED faults
  /\ UNCHANGED <<embeddingModel, db, runs, script, qgInit, dir, file, csv, genFailed, out, mergeVars, serverVars, callVars, sitemapVars>>

\* A faulty variant: the chunk is embedded as it is, not normalized.
IngestSitemapEmbedRaw ==
  /\ pc = "site.embed"
  /\ \/ /\ site' = [site EXCEPT !.chunkEmbedding = generateEmbeddings(script.modelVersion, <<site.chunks[site.chunkIdx + 1]>>)[1]]
        /\ pc' = "site.questions"
        /\ UNCHANGED faults
     \/ /\ CanFail
        /\ faults' = faults + 1
        /\ SiteCatch("embedding failed")
  /\ UNCHANGED <<embeddingModel, db, runs, script, qgInit, dir, file, csv, genFailed, out, mergeVars, serverVars, callVars, sitemapVars>>

\* ingestSitemap: the content embedding of the chunk.
IngestSitemapEmbed ==
  /\ pc = "site.embed"
  /\ \/ /\ site' = [site EXCEPT !.chunkEmbedding = generateEmbeddings(script.modelVersion, <<normalizeForEmbedding(site.chunks[site.chunkIdx + 1])>>)[1]]
        /\ pc' = "site.questions"
        /\ UNCHANGED faults
     \/ /\ CanFail
        /\ faults' = faults + 1
        /\ SiteCatch("embedding failed")
  /\ UNCHANGED <<embeddingModel, db, runs, script, qgInit, dir, file, csv, genFailed, out, mergeVars, serverVars, callVars, sitemapVars>>

\* ingestSitemap: generateQuestions for the chunk.
IngestSitemapQuestions ==
  /\ pc = "site.questions"
  /\ \E o \in QuestionOutcomes :
       /\ faults' = faults + o.cost
       /\ genFailed' = IF o.failed THEN genFailed \cup {<<site.sitemapUrls[site.i + 1].loc, site.chunkIdx>>} ELSE genFailed
       /\ site' = [site EXCEPT !.questions = QuestionList(site.chunks[site.chunkIdx + 1], o.n)]
       /\ pc' = "site.qembed"
  /\ UNCHANGED <<embeddingModel, db, runs, script, qgInit, dir, file, csv, out, mergeVars, serverVars, callVars, sitemapVars>>

\* ingestSitemap: the embeddings of the questions.
IngestSitemapQuestionEmbeddings ==
  /\ pc = "site.qembed"
  /\ \/ /\ site' = [site EXCEPT !.questionEmbeddings = QuestionEmbeddings(script.modelVersion, site.questions)]
        /\ pc' = "site.insert"
        /\ UNCHANGED faults
     \/ /\ Len(site.questions) > 0
        /\ CanFail
        /\ faults' = faults + 1
        /\ SiteCatch("embedding failed")
  /\ UNCHANGED <<embeddingModel, db, runs, script, qgInit, dir, file, csv, genFailed, out, mergeVars, serverVars, callVars, sitemapVars>>

\* The chunk metadata ingestSitemap stores.
SiteMetadata(st, sitemapUrl, m, date) ==
  [source_type |-> "sitemap", source_url |-> st.normalizedUrl, sitemap_source |-> sitemapUrl,
   page_title |-> st.extracted.title, page_description |-> st.extracted.description,
   chunk_index |-> st.chunkIdx, total_chunks |-> Len(st.chunks), is_chunked |-> Len(st.chunks) > 1,
   embedding_model |-> m,
   chunking_strategy |-> IF USE_SEMANTIC_CHUNKING THEN "semantic" ELSE "fixed-size",
   ingestion_date |-> date,
   lastmod |-> st.sitemapUrls[st.i + 1].lastmod, priority |-> st.sitemapUrls[st.i + 1].priority]

\* The record ingestSitemap inserts for the current chunk: the document
\* identifier is the page title, with a chunk suffix for a split page.
SiteInsert(d, st, sitemapUrl, m, date) ==
  insertDocument(d, ChunkDocId(st.extracted.title, st.chunkIdx, Len(st.chunks)), st.extracted.text, st.chunks[st.chunkIdx + 1], st.chunkEmbedding, st.chunkIdx, Len(st.chunks[st.chunkIdx + 1]), st.questions, st.questionEmbeddings, SiteMetadata(st, sitemapUrl, m, date), st.sitemapUrls[st.i + 1].loc)

\* ingestSitemap: insertDocument; after the last chunk the success result.
IngestSitemapInsert ==
  /\ pc = "site.insert"
  /\ \/ /\ db' = SiteInsert(db, site, script.source, script.modelVersion, runs)
        /\ IF site.chunkIdx + 1 < Len(site.chunks)
           THEN /\ site' = [site EXCEPT !.chunkIdx = @ + 1, !.chunkEmbedding = <<>>, !.questions = <<>>, !.questionEmbeddings = <<>>]
                /\ pc' = "site.embed"
           ELSE SitePush(Result(site.normalizedUrl, Len(site.chunks), TRUE, ""))
        /\ UNCHANGED faults
     \/ /\ CanFail
        /\ faults' = faults + 1
        /\ SiteCatch("insert failed")
        /\ UNCHANGED db
  /\ UNCHANGED <<embeddingModel, runs, script, qgInit, dir, file, csv, genFailed, out, mergeVars, serverVars, callVars, sitemapVars>>

\* page.close() / browser.close() in the finally block: nothing to close when
\* never opened; an error while closing is logged and swallowed.
Closed(handle, fails) == IF handle = "none" THEN "none" ELSE IF fails THEN "close failed" ELSE "closed"

\* A faulty variant: an error while closing leaves the finally block.
AfterCloseThrowing(pending, fails) == IF fails THEN "throw" ELSE pending
\* How the call completes after the finally block: .catch(e => console.error)
\* swallows an error of close(), so as it would have without it.
AfterClose(pending, fails) == pending

\* ingestSitemap's finally block, then feed-sitemap's main: the summary after
\* a return, 'Fatal error' and exit 1 after the IngestionError.
IngestSitemapFinally ==
  /\ pc = "site.finally"
  /\ \E fails \in BOOLEAN :
       /\ fails => (CanFail /\ site.browser # "none")
       /\ faults' = IF fails THEN faults + 1 ELSE faults
       /\ IF AfterClose(site.pending, fails) = "throw"
          THEN /\ out' = [NoOut EXCEPT !.name = "feed-sitemap", !.exit = "fatal", !.source = script.source,
                                       !.found = Len(site.sitemapUrls),
                                       !.browser = Closed(site.browser, fails), !.page = Closed(site.page, fails), !.looped = site.looped]
               /\ pc' = "idle"
               /\ script' = NoScript
               /\ site' = NoSite
          ELSE /\ site' = [site EXCEPT !.page = Closed(site.page, fails), !.browser = Closed(site.browser, fails)]
               /\ pc' = "sitemapSummary"
               /\ UNCHANGED <<out, script>>
  /\ UNCHANGED <<embeddingModel, db, runs, qgInit, dir, file, csv, genFailed, mergeVars, serverVars, callVars, sitemapVars>>

\* feed-sitemap main after ingestSitemap: the summary, db.close().
FeedSitemapSummary ==
  /\ pc = "sitemapSummary"
  /\ LET results == site.results
         IsOk(r) == r.success
         IsFailed(r) == ~r.success
     IN out' = [NoOut EXCEPT !.name = "feed-sitemap", !.exit = "ok", !.source = script.source,
                !.results = results,
                !.found = Len(site.sitemapUrls),
                !.successful = Len(SelectSeq(results, IsOk)),
                !.failed = Len(SelectSeq(results, IsFailed)),
                !.totalChunks = SumChunks(SelectSeq(results, IsOk)),
                !.beforeCount = script.beforeCount,
                !.afterCount = getDocumentCount(db),
                !.browser = site.browser, !.page = site.page, !.looped = site.looped]
  /\ pc' = "idle"
  /\ script' = NoScript
  /\ site' = NoSite
  /\ UNCHANGED <<embeddingModel, db, runs, faults, qgInit, dir, file, csv, genFailed, mergeVars, serverVars, callVars, sitemapVars>>

\* ---------------------------------------------------------------- merge-db
\* The dimension the vec0 table of the target is created with: the dimension
\* of the model this build is configured for.
EMBEDDING_DIMENSIONS == ModelDim("m1")

\* A store as an earlier ingestion left it: one single-chunk file per text.
StoredFile(d, name, text, m) ==
  insertDocument(d, <<name>>, text, text, Embed(m, text), 0, Len(text), <<>>, <<>>, FileMetadata(text, <<text>>, 0, m, 0), <<name>>)

\* The database files merge-db can be pointed at. "new" was ingested with the
\* newer model, "dup" holds two files of the same basename, "blank" has an
\* empty documents table, "none" is no database (no documents table).
SourcePaths == {"one", "two", "new", "dup", "blank", "none"}
Store(path) ==
  CASE path = "one" -> StoredFile(<<>>, "a", ShortText, "m1")
    [] path = "two" -> StoredFile(StoredFile(<<>>, "b", ShortText, "m1"), "a", OtherText, "m1")
    [] path = "new" -> StoredFile(<<>>, "a", OtherText, "m2")
    [] path = "dup" -> StoredFile(StoredFile(<<>>, "a", ShortText, "m1"), "a", OtherText, "m1")
    [] OTHER -> <<>>
Readable(path) == path # "none"

\* The argument lists: one to MaxSources sources, then the target.
RECURSIVE SeqsOf(_, _)
SeqsOf(S, n) ==
  IF n = 0 THEN {<<>>}
  ELSE {<<>>} \cup {<<x>> \o t : x \in S, t \in SeqsOf(S, n - 1)}
MergeArgs == {a \o <<"target">> : a \in SeqsOf(SourcePaths, MaxSources) \ {<<>>}}

NoTarget == [documents |-> <<>>, vec_embeddings |-> <<>>]
NoMerge == [sourcePaths |-> <<>>, i |-> 0, documents |-> <<>>, j |-> 0, duplicates |-> {}, totalDocuments |-> 0, documentsBySource |-> <<>>, inserted |-> 0, skipped |-> 0, log |-> <<>>]

\* const key = `${doc.filename}:${doc.chunk_index}`
Key(doc) == doc.filename \o <<":", ToString(doc.chunk_index)>>

\* getDocuments: the rows of the documents table; throws without the table.
getDocuments(path) == Store(path)

\* The first statement of merge-db's insertDocument: the documents row, with
\* the id the target assigns. The ghost field origin names the source row.
DocumentsRow(t, doc, from) ==
  [doc EXCEPT !.id = NextId(t.documents), !.origin = from]
\* The second statement: the vec_embeddings row.
VecRow(t, doc) == [document_id |-> NextId(t.documents), embedding |-> doc.embedding]
\* vec0 refuses a vector whose dimension is not the declared one.
VecAccepts(doc) == doc.embedding.dim = EMBEDDING_DIMENSIONS

\* merge-db main, up to the loop: arguments, the existing target, createTargetDatabase.
MergeMain ==
  /\ pc = "merge.main"
  /\ \E args \in MergeArgs, targetExists \in BOOLEAN :
       IF Len(args) < 3 \/ targetExists
       THEN /\ out' = [NoOut EXCEPT !.name = "merge-db", !.exit = "fatal"]
            /\ pc' = "merge.done"
            /\ UNCHANGED mergeVars
       ELSE /\ targetDb' = NoTarget
            /\ mrg' = [NoMerge EXCEPT !.sourcePaths = SubSeq(args, 1, Len(args) - 1), !.i = 0]
            /\ pc' = "merge.source"
            /\ UNCHANGED out
  /\ UNCHANGED <<ingestVars, serverVars, callVars, sitemapVars, faults>>

\* for (let i = 0; ...): openDatabase and getDocuments of source i inside the
\* try; a throw is logged by the catch and the loop goes on; after the last
\* source the summary.
MergeSource ==
  /\ pc = "merge.source"
  /\ IF mrg.i < Len(mrg.sourcePaths)
     THEN LET sourcePath == mrg.sourcePaths[mrg.i + 1]
          IN \/ /\ Readable(sourcePath)
                /\ mrg' = [mrg EXCEPT !.documents = getDocuments(sourcePath), !.j = 1, !.inserted = 0, !.skipped = 0]
                /\ pc' = "merge.doc"
                /\ UNCHANGED faults
             \/ /\ ~Readable(sourcePath)
                /\ mrg' = [mrg EXCEPT !.i = @ + 1]
                /\ UNCHANGED <<pc, faults>>
             \/ /\ Readable(sourcePath)
                /\ CanFail
                /\ faults' = faults + 1
                /\ mrg' = [mrg EXCEPT !.i = @ + 1]
                /\ UNCHANGED pc
     ELSE /\ pc' = "merge.summary"
          /\ UNCHANGED <<mrg, faults>>
  /\ UNCHANGED <<ingestVars, serverVars, callVars, sitemapVars, out, targetDb>>

\* for (const doc of documents): the duplicate test, insertDocument and its
\* catch; after the last row the counts of the source, documentsBySource.push
\* and sourceDb.close().
MergeDocument ==
  /\ pc = "merge.doc"
  /\ IF mrg.j <= Len(mrg.documents)
     THEN LET doc == mrg.documents[mrg.j]
              key == Key(doc)
              row == DocumentsRow(targetDb, doc, <<mrg.i + 1, mrg.j>>)
          IN /\ pc' = pc
             /\ IF key \in mrg.duplicates
                THEN /\ mrg' = [mrg EXCEPT !.skipped = @ + 1, !.j = @ + 1]
                     /\ UNCHANGED <<targetDb, faults>>
                ELSE \/ /\ VecAccepts(doc)
                        /\ targetDb' = [documents |-> Append(targetDb.documents, row), vec_embeddings |-> Append(targetDb.vec_embeddings, VecRow(targetDb, doc))]
                        /\ mrg' = [mrg EXCEPT !.duplicates = @ \cup {key}, !.inserted = @ + 1, !.j = @ + 1]
                        /\ UNCHANGED faults
                     \/ /\ ~VecAccepts(doc)
                        /\ targetDb' = [targetDb EXCEPT !.documents = Append(@, row)]
                        /\ mrg' = [mrg EXCEPT !.j = @ + 1]
                        /\ UNCHANGED faults
                     \/ /\ CanFail
                        /\ faults' = faults + 1
                        /\ \/ targetDb' = targetDb
                           \/ targetDb' = [targetDb EXCEPT !.documents = Append(@, row)]
                        /\ mrg' = [mrg EXCEPT !.j = @ + 1]
     ELSE /\ mrg' = [mrg EXCEPT !.documentsBySource = Append(@, mrg.inserted), !.totalDocuments = @ + mrg.inserted, !.log = Append(@, [source |-> mrg.i + 1, inserted |-> mrg.inserted, skipped |-> mrg.skipped]), !.i = @ + 1]
          /\ pc' = "merge.source"
          /\ UNCHANGED <<targetDb, faults>>
  /\ UNCHANGED <<ingestVars, serverVars, callVars, sitemapVars, out>>

\* The merge summary: the total and one line per source path, taken from
\* documentsBySource by position.
MergeSummary ==
  /\ pc = "merge.summary"
  /\ out' = [NoOut EXCEPT !.name = "merge-db", !.exit = "ok", !.found = Len(mrg.sourcePaths), !.totalChunks = mrg.totalDocuments, !.results = mrg.documentsBySource]
  /\ pc' = "merge.done"
  /\ UNCHANGED <<ingestVars, faults, mergeVars, serverVars, callVars, sitemapVars>>

\* ------------------------------------------------------------------ server
\* The routes that take a POST body.
Routes == {"/search", "/ask", "/ask/stream"}
\* The body field a route requires.
RequiredField(route) == IF route = "/search" THEN "query" ELSE "question"

\* JavaScript values of the required field, as far as the handlers look at them.
Undefined == [type |-> "undefined", value |-> ""]
FieldValues ==
  { Undefined,
    [type |-> "string", value |-> ""],
    [type |-> "number", value |-> "0"],
    [type |-> "number", value |-> "5"],
    [type |-> "string", value |-> "q"] }
\* !x
Falsy(x) == x.type = "undefined" \/ (x.type = "string" /\ x.value = "") \/ (x.type = "number" /\ x.value = "0")
\* JavaScript values of the optional fields topK and similarityThreshold; a
\* threshold is counted in tenths.
Absent == [type |-> "undefined", num |-> 0]
TopKValues == {Absent, [type |-> "number", num |-> 0], [type |-> "number", num |-> 1], [type |-> "string", num |-> 0]}
ThresholdValues ==
  { Absent, [type |-> "number", num |-> -5], [type |-> "number", num |-> 0],
    [type |-> "number", num |-> 9], [type |-> "string", num |-> 0] }
\* What a client may send: text that is not JSON, the JSON null, or a JSON object.
RequestBodies ==
  {[json |-> j, field |-> Undefined, topK |-> Absent, similarityThreshold |-> Absent] : j \in {"malformed", "null"}}
    \cup {[json |-> "object", field |-> f, topK |-> k, similarityThreshold |-> t] :
            f \in FieldValues, k \in TopKValues, t \in ThresholdValues}
\* constants/rag: the configured defaults (the threshold in tenths).
DEFAULT_TOP_K == 2
SIMILARITY_THRESHOLD == 3
\* body.x && typeof body.x === 'number' ? body.x : default
NumberOr(x, default) == IF x.type = "number" /\ x.num # 0 THEN x.num ELSE default

\* The stores the server may be started on: per chunk, in insertion order, the fused
\* score of the chunk for the query, in tenths.
Stores == {<<>>, <<5>>, <<5, 9, 2>>}
\* services/search searchSimilar: the chunks whose score reaches the
\* threshold, by descending score (then by position), at most topK of them.
RECURSIVE Ranked(_, _)
Ranked(store, among) ==
  IF among = {} THEN <<>>
  ELSE LET best == CHOOSE k \in among : \A j \in among : store[k] > store[j] \/ (store[k] = store[j] /\ k <= j)
       IN <<[chunk |-> best, score |-> store[best]]>> \o Ranked(store, among \ {best})
searchSimilar(store, topK, similarityThreshold) ==
  LET ranked == Ranked(store, {k \in 1..Len(store) : store[k] >= similarityThreshold})
  IN SubSeq(ranked, 1, IF topK < Len(ranked) THEN topK ELSE Len(ranked))
\* !body.query || typeof body.query !== 'string'
InvalidField(body) == Falsy(body.field) \/ body.field.type # "string"

\* The messages of the errors a retrieval, embedding or model call may throw.
ErrorMessages == {"model unavailable", "database is locked"}
JsonParseError == "JSON Parse error: Unexpected identifier"
NullBodyError == "null is not an object"
ControllerClosedError == "Invalid state: Controller is already closed"

\* The responses of the handlers.
NoResponse == [status |-> 0, body |-> [none |-> TRUE]]
BadRequest(route) == [status |-> 400, body |-> [error |-> <<"Missing or invalid '", RequiredField(route), "' parameter">>]]
InternalServerError(message) == [status |-> 500, body |-> [error |-> "Internal server error", message |-> message]]
SearchResponseUnlessEmpty(body, results) ==
  IF results = <<>> THEN [status |-> 404, body |-> [error |-> "No results found"]]
  ELSE [status |-> 200, body |-> [results |-> results, query |-> body.field.value]]
SearchResponse(body, results) == [status |-> 200, body |-> [results |-> results, query |-> body.field.value]]
AskResponse(body) == [status |-> 200, body |-> [answer |-> "answer", question |-> body.field.value]]
EventStream == [status |-> 200, body |-> [stream |-> "text/event-stream"]]

\* The events of a streamed answer; content is the length of the cumulative text.
ContentDelta(n) == [type |-> "content", content |-> n, error |-> ""]
ErrorEvent(message) == [type |-> "error", content |-> 0, error |-> message]

NoRequest ==
  [ pc |-> "idle", route |-> "",
    body |-> [json |-> "object", field |-> Undefined, topK |-> Absent, similarityThreshold |-> Absent],
    store |-> <<>>,             \* the store the server was started on
    boot |-> 1,                 \* the start-up statement to run next
    inits |-> [i \in {"initializeDatabase", "initializeEmbeddings", "initializeLLM"} |-> 0],   \* calls made of each
    exited |-> FALSE,           \* the process ended during start-up
    topK |-> DEFAULT_TOP_K, similarityThreshold |-> SIMILARITY_THRESHOLD,   \* the handler's locals
    threw |-> FALSE,            \* searchSimilar or askQuestion threw
    lenient |-> FALSE,          \* enqueue and close on a cancelled stream are ignored rather than thrown
    response |-> NoResponse,
    calls |-> {},               \* the retrieval and model entry points called
    controller |-> "none",      \* none, open, closed, cancelled
    generator |-> "none",       \* none, running, failed, ended, returned
    yielded |-> <<>>,           \* the events streamQuestion has produced
    failure |-> "none",         \* how the model call failed: none, event (a yielded error event), thrown
    wire |-> <<>>,              \* the events enqueued for the client
    cancelled |-> FALSE, pulledAfterCancel |-> FALSE, escaped |-> FALSE ]

\* What the next step of the streamQuestion generator may be: a content delta,
\* a terminal error event, the end of the sequence, or a thrown error.
StreamOutcomes(s) ==
  IF s.generator = "failed"
  THEN {[kind |-> "done", event |-> ContentDelta(0), message |-> ""]}
  ELSE {[kind |-> "done", event |-> ContentDelta(0), message |-> ""]}
         \cup {[kind |-> "throw", event |-> ContentDelta(0), message |-> m] : m \in ErrorMessages}
         \cup {[kind |-> "error", event |-> ErrorEvent(m), message |-> ""] : m \in ErrorMessages}
         \cup (IF Len(s.yielded) < MaxDeltas
               THEN {[kind |-> "delta", event |-> ContentDelta(Len(s.yielded) + 1), message |-> ""]}
               ELSE {})

\* The catch block of start(): one error event, then close.
StreamCatchTwice(s, message) ==
  IF s.controller = "open"
  THEN [s EXCEPT !.wire = @ \o <<ErrorEvent(message), ErrorEvent(message)>>, !.controller = "closed", !.pc = "done"]
  ELSE IF s.lenient THEN [s EXCEPT !.pc = "done"]
  ELSE [s EXCEPT !.escaped = TRUE, !.pc = "done"]
StreamCatch(s, message) ==
  IF s.controller = "open"
  THEN [s EXCEPT !.wire = Append(@, ErrorEvent(message)), !.controller = "closed", !.pc = "done"]
  ELSE IF s.lenient THEN [s EXCEPT !.pc = "done"]
  ELSE [s EXCEPT !.escaped = TRUE, !.pc = "done"]

\* A POST arrives: the body is parsed and the required field validated; a valid
\* /ask/stream request answers with the stream, whose start() runs up to its
\* first pull from streamQuestion.
\* The module's top-level statements before Bun.serve, in order.
Initializers == <<"initializeDatabase", "initializeEmbeddings", "initializeLLM">>
\* One start-up statement: the initialization returns, or it throws and the
\* process ends before Bun.serve.
ServerStartup ==
  /\ pc = "serve"
  /\ ~srv.exited /\ srv.boot <= Len(Initializers)
  /\ \/ srv' = [srv EXCEPT !.boot = @ + 1, !.inits[Initializers[srv.boot]] = @ + 1]
     \/ srv' = [srv EXCEPT !.exited = TRUE, !.inits[Initializers[srv.boot]] = @ + 1]
  /\ UNCHANGED <<ingestVars, faults, pc, out, mergeVars, callVars, sitemapVars>>

\* Bun.serve has been reached: the routes are served.
ServingBeforeLLM(s) == ~s.exited /\ s.boot >= Len(Initializers)
Serving(s) == ~s.exited /\ s.boot > Len(Initializers)

ServerRequest ==
  /\ Serving(srv)
  /\ srv.pc \in {"idle", "done"}
  /\ \E route \in Routes, body \in RequestBodies, lenient \in BOOLEAN :
       LET s == [NoRequest EXCEPT !.route = route, !.body = body, !.lenient = lenient, !.store = srv.store,
                                  !.boot = srv.boot, !.inits = srv.inits]
           valid == [s EXCEPT !.topK = NumberOr(body.topK, DEFAULT_TOP_K),
                              !.similarityThreshold = NumberOr(body.similarityThreshold, SIMILARITY_THRESHOLD)]
       IN
       srv' = IF body.json = "malformed" THEN [s EXCEPT !.pc = "done", !.response = InternalServerError(JsonParseError)]
              ELSE IF body.json = "null" THEN [s EXCEPT !.pc = "done", !.response = InternalServerError(NullBodyError)]
              ELSE IF InvalidField(body) THEN [s EXCEPT !.pc = "done", !.response = BadRequest(route)]
              ELSE IF route = "/search" THEN [valid EXCEPT !.pc = "search"]
              ELSE IF route = "/ask" THEN [valid EXCEPT !.pc = "ask"]
              ELSE [valid EXCEPT !.pc = "stream.await", !.response = EventStream, !.controller = "open",
                                 !.generator = "running", !.calls = {"streamQuestion"}]
  /\ UNCHANGED <<ingestVars, faults, pc, out, mergeVars, callVars, sitemapVars>>

\* /search: searchSimilar answers or throws.
ServerSearch ==
  /\ srv.pc = "search"
  /\ \/ srv' = [srv EXCEPT !.pc = "done", !.calls = @ \cup {"searchSimilar"},
                           !.response = SearchResponse(srv.body, searchSimilar(srv.store, srv.topK, srv.similarityThreshold))]
     \/ \E m \in ErrorMessages :
          srv' = [srv EXCEPT !.pc = "done", !.calls = @ \cup {"searchSimilar"}, !.threw = TRUE, !.response = InternalServerError(m)]
  /\ UNCHANGED <<ingestVars, faults, pc, out, mergeVars, callVars, sitemapVars>>

\* /ask: askQuestion answers or throws.
ServerAsk ==
  /\ srv.pc = "ask"
  /\ \/ srv' = [srv EXCEPT !.pc = "done", !.calls = @ \cup {"askQuestion"}, !.response = AskResponse(srv.body)]
     \/ \E m \in ErrorMessages :
          srv' = [srv EXCEPT !.pc = "done", !.calls = @ \cup {"askQuestion"}, !.threw = TRUE, !.response = InternalServerError(m)]
  /\ UNCHANGED <<ingestVars, faults, pc, out, mergeVars, callVars, sitemapVars>>

\* The client goes away while start() waits for the next event.
ClientCancel ==
  /\ srv.pc = "stream.await"
  /\ srv.controller = "open"
  /\ srv' = [srv EXCEPT !.controller = "cancelled", !.cancelled = TRUE]
  /\ UNCHANGED <<ingestVars, faults, pc, out, mergeVars, callVars, sitemapVars>>

\* The pending pull of the for-await loop settles: an event is enqueued and the
\* next one pulled, the end of the sequence closes the stream, and an error
\* (thrown by the generator, or by enqueue or close) lands in the catch block.
ServerStream ==
  /\ srv.pc = "stream.await"
  /\ \E o \in StreamOutcomes(srv) :
       LET throws == srv.controller # "open" /\ ~srv.lenient IN
       srv' = IF o.kind \in {"delta", "error"}
              THEN LET s == [srv EXCEPT !.yielded = Append(@, o.event),
                                        !.generator = IF o.kind = "error" THEN "failed" ELSE @,
                                        !.failure = IF o.kind = "error" THEN "event" ELSE @] IN
                   IF srv.controller = "open" THEN [s EXCEPT !.wire = Append(@, o.event)]
                   ELSE IF throws THEN StreamCatch([s EXCEPT !.generator = "returned"], ControllerClosedError)
                   ELSE [s EXCEPT !.pulledAfterCancel = TRUE]
              ELSE IF o.kind = "done"
              THEN LET s == [srv EXCEPT !.generator = "ended"] IN
                   IF srv.controller = "open" THEN [s EXCEPT !.controller = "closed", !.pc = "done"]
                   ELSE IF throws THEN StreamCatch(s, ControllerClosedError)
                   ELSE [s EXCEPT !.pc = "done"]
              ELSE StreamCatch([srv EXCEPT !.generator = "ended", !.failure = "thrown"], o.message)
  /\ UNCHANGED <<ingestVars, faults, pc, out, mergeVars, callVars, sitemapVars>>

\* ------------------------------------------------- ingestion, call by call
\* The functions that call the embedding and question-generation backends.
IngestFunctions == {"ingestFile", "ingestCSV", "ingestSitemap"}
\* The texts a source may hold.
SourceTexts == {LongText, LineText, ShortText}

\* at: the call site the function stands at; i: the chunk it is working on;
\* qs: the number of questions obtained per chunk so far; suspended: the
\* function waits for the call it made; inflight: the calls not yet settled.
NoCalls == [fn |-> "none", at |-> "idle", i |-> 0, n |-> 0, qs |-> <<>>, suspended |-> FALSE, inflight |-> {}]

\* Every call of generateEmbeddings and generateQuestions is awaited.
AwaitedExceptQuestions(at) == at # "questions"
Awaited(at) == TRUE

\* The first chunk from index from on that has questions, -1 when none has.
NextWithQuestions(qs, from) ==
  LET S == {j \in from..(Len(qs) - 1) : qs[j + 1] > 0}
  IN IF S = {} THEN -1 ELSE CHOOSE j \in S : \A k \in S : j <= k

\* Where the function goes on once the call at c.at has given its result.
\* ingestFile: one call for all content embeddings, then a loop of
\* generateQuestions, then a loop of generateEmbeddings over the non-empty
\* question lists. ingestCSV and ingestSitemap: per chunk the content
\* embedding, the questions and, unless there are none, their embeddings.
Resume(c) ==
  LET stop == [c EXCEPT !.at = "idle", !.fn = "none"] IN
  IF c.fn = "ingestFile"
  THEN IF c.at = "embed" THEN [c EXCEPT !.at = "questions", !.i = 0]
       ELSE IF c.at = "questions" /\ c.i + 1 < c.n THEN [c EXCEPT !.i = @ + 1]
       ELSE LET j == NextWithQuestions(c.qs, IF c.at = "questions" THEN 0 ELSE c.i + 1)
            IN IF j = -1 THEN stop ELSE [c EXCEPT !.at = "qembed", !.i = j]
  ELSE IF c.at = "embed" THEN [c EXCEPT !.at = "questions"]
       ELSE IF c.at = "questions" /\ c.qs[c.i + 1] > 0 THEN [c EXCEPT !.at = "qembed"]
       ELSE IF c.i + 1 < c.n THEN [c EXCEPT !.at = "embed", !.i = @ + 1]
       ELSE stop

\* The loop of ingestDirectory (or the URL loop of ingestSitemap) enters the
\* next source once the previous one has returned.
CallsBegin ==
  /\ calls.at = "idle"
  /\ \E fn \in IngestFunctions, text \in SourceTexts :
       calls' = [NoCalls EXCEPT !.fn = fn, !.at = "embed", !.n = Len(SplitIntoChunks(text)), !.inflight = calls.inflight]
  /\ UNCHANGED <<ingestVars, faults, pc, out, mergeVars, serverVars, sitemapVars>>

\* The function reaches a call site and makes the call; awaiting it, it is
\* suspended there, otherwise it goes on with a promise in place of the result.
CallsIssue ==
  /\ calls.at \in {"embed", "questions", "qembed"}
  /\ ~calls.suspended
  /\ LET issued == [calls EXCEPT !.inflight = @ \cup {<<calls.fn, calls.at, calls.i>>}] IN
     calls' = IF Awaited(calls.at) THEN [issued EXCEPT !.suspended = TRUE]
              ELSE Resume([issued EXCEPT !.qs = IF calls.at = "questions" THEN Append(@, 0) ELSE @])
  /\ UNCHANGED <<ingestVars, faults, pc, out, mergeVars, serverVars, sitemapVars>>

\* A call in flight settles. The function suspended on it goes on with the
\* result, or ends when the call was rejected (generateQuestions gives an
\* empty list instead).
CallsSettle ==
  /\ \E call \in calls.inflight :
       LET settled == [calls EXCEPT !.inflight = @ \ {call}] IN
       IF calls.suspended /\ call = <<calls.fn, calls.at, calls.i>>
       THEN \/ /\ calls.at # "questions"
               /\ calls' = Resume([settled EXCEPT !.suspended = FALSE])
            \/ /\ calls.at # "questions"
               /\ calls' = [NoCalls EXCEPT !.inflight = settled.inflight]
            \/ /\ calls.at = "questions"
               /\ \E k \in 0..QUESTIONS_PER_CHUNK :
                    calls' = Resume([settled EXCEPT !.suspended = FALSE, !.qs = Append(@, k)])
       ELSE calls' = settled
  /\ UNCHANGED <<ingestVars, faults, pc, out, mergeVars, serverVars, sitemapVars>>

\* ------------------------------------------------- extractAllUrls, step by step
\* Sitemap documents: the root element and the <sitemap> and <url> blocks
\* that have a <loc>, in document order.
SitemapIndexXml == <<"https:", "//s", "/index.xml">>
SitemapA == <<"https:", "//s", "/a.xml">>
SitemapB == <<"https:", "//s", "/b.xml">>
SitemapGone == <<"https:", "//s", "/gone.xml">>
\* A sitemap k directories down.
DeepUrl(k) == <<"https:", "//s">> \o [i \in 1..k |-> "/n"] \o <<"/sitemap.xml">>
SitemapIndexOf(locs) == [root |-> "sitemapindex", blocks |-> [k \in 1..Len(locs) |-> [tag |-> "sitemap", loc |-> locs[k]]]]
UrlSetOf(locs) == [root |-> "urlset", blocks |-> [k \in 1..Len(locs) |-> [tag |-> "url", loc |-> locs[k]]]]
NotFound == [root |-> "none", blocks |-> <<>>]
\* The webs a call may run on. "cyclic": an index that lists a sitemap twice,
\* a missing sitemap, itself, and an index that lists it back. "deep": a chain
\* of indexes one longer than MaxDepth, the sitemap with the URLs at its end.
Webs == {"cyclic", "deep"}
RootOf(web) == IF web = "cyclic" THEN SitemapIndexXml ELSE DeepUrl(0)
DocumentAt(web, url) ==
  IF web = "cyclic"
  THEN CASE url = SitemapIndexXml -> SitemapIndexOf(<<SitemapA, SitemapGone, SitemapB, SitemapIndexXml, SitemapA>>)
         [] url = SitemapA -> UrlSetOf(<<UrlAbout>>)
         [] url = SitemapB -> SitemapIndexOf(<<SitemapIndexXml, SitemapXml>>)
         [] url = SitemapXml -> UrlSetOf(<<UrlHome, UrlFtp, UrlAbout, UrlBroken, UrlLong>>)
         [] OTHER -> NotFound
  ELSE IF \E k \in 0..MaxDepth : url = DeepUrl(k)
       THEN SitemapIndexOf(<<DeepUrl((CHOOSE k \in 0..MaxDepth : url = DeepUrl(k)) + 1)>>)
       ELSE IF url = DeepUrl(MaxDepth + 1) THEN UrlSetOf(<<UrlHome>>) ELSE NotFound

\* utils/sitemap isSitemapIndex, parseSitemapIndex, parseSitemap
isSitemapIndex(xmlContent) ==
  xmlContent.root = "sitemapindex" \/ \E k \in DOMAIN xmlContent.blocks : xmlContent.blocks[k].tag = "sitemap"
LocsOf(xmlContent, tag) ==
  LET blocks == SelectSeq(xmlContent.blocks, LAMBDA b : b.tag = tag) IN [k \in 1..Len(blocks) |-> blocks[k].loc]
parseSitemapIndex(xmlContent) == LocsOf(xmlContent, "sitemap")
parseSitemap(xmlContent) == LocsOf(xmlContent, "url")

NoCrawl ==
  [ pc |-> "idle", web |-> "", maxDepth |-> 0,
    stack |-> <<>>,             \* the frames of extractRecursive, the running one last
    allUrls |-> <<>>, visitedSitemaps |-> {},
    fetched |-> <<>> ]          \* history: the fetches made, with the depth and the outcome of each
Frame(url, depth) == [url |-> url, depth |-> depth, at |-> "enter", nestedSitemaps |-> <<>>]
Top == crawl.stack[Len(crawl.stack)]
\* The running frame returns to its caller.
Return(stack) == SubSeq(stack, 1, Len(stack) - 1)
\* The running frame moves on.
Move(stack, frame) == [stack EXCEPT ![Len(stack)] = frame]
\* catch (err) of extractRecursive: logs, and the frame returns normally.
ExtractRethrow(stack) == <<>>
ExtractCatch(stack) == Return(stack)

\* extractAllUrls(sitemapUrl, maxDepth) is called.
ExtractAllUrlsCall ==
  /\ pc = "sitemap" /\ crawl.pc = "idle"
  /\ \E web \in Webs, maxDepth \in 0..MaxDepth :
       crawl' = [NoCrawl EXCEPT !.pc = "running", !.web = web, !.maxDepth = maxDepth,
                                !.stack = <<Frame(RootOf(web), 0)>>]
  /\ UNCHANGED <<ingestVars, faults, pc, out, mergeVars, serverVars, callVars>>

\* extractRecursive: the guard against recursion and re-visiting.
ExtractEnter ==
  /\ pc = "sitemap" /\ crawl.pc = "running" /\ crawl.stack # <<>> /\ Top.at = "enter"
  /\ crawl' = IF Top.depth > crawl.maxDepth \/ Top.url \in crawl.visitedSitemaps
              THEN [crawl EXCEPT !.stack = Return(@)]
              ELSE [crawl EXCEPT !.visitedSitemaps = @ \cup {Top.url}, !.stack = Move(@, [Top EXCEPT !.at = "fetch"])]
  /\ UNCHANGED <<ingestVars, faults, pc, out, mergeVars, serverVars, callVars>>

\* extractRecursive: fetchSitemap settles. A regular sitemap adds its URLs
\* and the frame returns; an index starts the loop over its nested sitemaps;
\* a failed fetch lands in the catch block.
ExtractFetch ==
  /\ pc = "sitemap" /\ crawl.pc = "running" /\ crawl.stack # <<>> /\ Top.at = "fetch"
  /\ LET xmlContent == DocumentAt(crawl.web, Top.url) IN
     \/ /\ xmlContent # NotFound
        /\ crawl' = IF isSitemapIndex(xmlContent)
                    THEN [crawl EXCEPT !.fetched = Append(@, [url |-> Top.url, depth |-> Top.depth, ok |-> TRUE]),
                                       !.stack = Move(@, [Top EXCEPT !.at = "loop", !.nestedSitemaps = parseSitemapIndex(xmlContent)])]
                    ELSE [crawl EXCEPT !.fetched = Append(@, [url |-> Top.url, depth |-> Top.depth, ok |-> TRUE]),
                                       !.allUrls = @ \o parseSitemap(xmlContent),
                                       !.stack = Return(@)]
     \/ crawl' = [crawl EXCEPT !.fetched = Append(@, [url |-> Top.url, depth |-> Top.depth, ok |-> FALSE]),
                               !.stack = ExtractCatch(@)]
  /\ UNCHANGED <<ingestVars, faults, pc, out, mergeVars, serverVars, callVars>>

\* extractRecursive: for (const nestedUrl of nestedSitemaps) await extractRecursive(nestedUrl, depth + 1)
ExtractLoop ==
  /\ pc = "sitemap" /\ crawl.pc = "running" /\ crawl.stack # <<>> /\ Top.at = "loop"
  /\ crawl' = IF Top.nestedSitemaps = <<>>
              THEN [crawl EXCEPT !.stack = Return(@)]
              ELSE [crawl EXCEPT !.stack = Append(Move(@, [Top EXCEPT !.nestedSitemaps = Tail(@)]),
                                                  Frame(Head(Top.nestedSitemaps), Top.depth + 1))]
  /\ UNCHANGED <<ingestVars, faults, pc, out, mergeVars, serverVars, callVars>>

\* extractAllUrls: return allUrls
ExtractAllUrlsReturn ==
  /\ pc = "sitemap" /\ crawl.pc = "running" /\ crawl.stack = <<>>
  /\ crawl' = [crawl EXCEPT !.pc = "returned"]
  /\ UNCHANGED <<ingestVars, faults, pc, out, mergeVars, serverVars, callVars>>

\* ---------------------------------------------------------- specification
Init ==
  /\ embeddingModel = "m1"
  /\ db = <<>>
  /\ runs = 0
  /\ faults = 0
  /\ pc = "idle"
  /\ script = NoScript
  /\ qgInit = FALSE
  /\ dir = NoDir
  /\ file = NoFile
  /\ csv = NoCsv
  /\ site = NoSite
  /\ genFailed = {}
  /\ out = NoOut
  /\ targetDb = NoTarget
  /\ mrg = NoMerge
  /\ srv = NoRequest
  /\ calls = NoCalls
  /\ crawl = NoCrawl

Next ==
  \/ FeedMain
  \/ IngestDirectoryScan
  \/ IngestDirectoryLoop
  \/ IngestFileExtract
  \/ IngestFileEmbed
  \/ IngestFileQuestions
  \/ IngestFileQuestionEmbeddings
  \/ IngestFileInsert
  \/ IngestCSVParse
  \/ IngestCSVRow
  \/ IngestCSVEmbed
  \/ IngestCSVQuestions
  \/ IngestCSVQuestionEmbeddings
  \/ IngestCSVInsert
  \/ FeedSummary
  \/ FeedSitemapMain
  \/ IngestSitemapExtract
  \/ IngestSitemapLaunch
  \/ IngestSitemapInit
  \/ IngestSitemapPage
  \/ IngestSitemapEmbed
  \/ IngestSitemapQuestions
  \/ IngestSitemapQuestionEmbeddings
  \/ IngestSitemapInsert
  \/ IngestSitemapFinally
  \/ FeedSitemapSummary

Spec == Init /\ [][Next]_vars

\* The merge-db script, run once on the stores of SourcePaths.
InitMerge ==
  /\ embeddingModel = "m1"
  /\ db = <<>>
  /\ runs = 0
  /\ faults = 0
  /\ pc = "merge.main"
  /\ script = NoScript
  /\ qgInit = FALSE
  /\ dir = NoDir
  /\ file = NoFile
  /\ csv = NoCsv
  /\ site = NoSite
  /\ genFailed = {}
  /\ out = NoOut
  /\ targetDb = NoTarget
  /\ mrg = NoMerge
  /\ srv = NoRequest
  /\ calls = NoCalls
  /\ crawl = NoCrawl

NextMerge ==
  \/ MergeMain
  \/ MergeSource
  \/ MergeDocument
  \/ MergeSummary

SpecMerge == InitMerge /\ [][NextMerge]_vars

\* The server, taking one request after another.
InitServer ==
  /\ embeddingModel = "m1"
  /\ db = <<>>
  /\ runs = 0
  /\ faults = 0
  /\ pc = "serve"
  /\ script = NoScript
  /\ qgInit = FALSE
  /\ dir = NoDir
  /\ file = NoFile
  /\ csv = NoCsv
  /\ site = NoSite
  /\ genFailed = {}
  /\ out = NoOut
  /\ targetDb = NoTarget
  /\ mrg = NoMerge
  /\ srv \in {[NoRequest EXCEPT !.store = store] : store \in Stores}
  /\ calls = NoCalls
  /\ crawl = NoCrawl

NextServer ==
  \/ ServerStartup
  \/ ServerRequest
  \/ ServerSearch
  \/ ServerAsk
  \/ ClientCancel
  \/ ServerStream

SpecServer == InitServer /\ [][NextServer]_vars

\* One ingestion run, call by call.
InitCalls ==
  /\ embeddingModel = "m1"
  /\ db = <<>>
  /\ runs = 0
  /\ faults = 0
  /\ pc = "calls"
  /\ script = NoScript
  /\ qgInit = FALSE
  /\ dir = NoDir
  /\ file = NoFile
  /\ csv = NoCsv
  /\ site = NoSite
  /\ genFailed = {}
  /\ out = NoOut
  /\ targetDb = NoTarget
  /\ mrg = NoMerge
  /\ srv = NoRequest
  /\ calls = NoCalls
  /\ crawl = NoCrawl

NextCalls ==
  \/ CallsBegin
  \/ CallsIssue
  \/ CallsSettle

SpecCalls == InitCalls /\ [][NextCalls]_vars

\* One call of extractAllUrls.
InitSitemap ==
  /\ embeddingModel = "m1"
  /\ db = <<>>
  /\ runs = 0
  /\ faults = 0
  /\ pc = "sitemap"
  /\ script = NoScript
  /\ qgInit = FALSE
  /\ dir = NoDir
  /\ file = NoFile
  /\ csv = NoCsv
  /\ site = NoSite
  /\ genFailed = {}
  /\ out = NoOut
  /\ targetDb = NoTarget
  /\ mrg = NoMerge
  /\ srv = NoRequest
  /\ calls = NoCalls
  /\ crawl = NoCrawl

NextSitemap ==
  \/ ExtractAllUrlsCall
  \/ ExtractEnter
  \/ ExtractFetch
  \/ ExtractLoop
  \/ ExtractAllUrlsReturn

\* The event loop runs the code of a call to its next await, and every fetch
\* settles (with a response or an error).
SpecSitemap == InitSitemap /\ [][NextSitemap]_vars /\ WF_vars(NextSitemap)

\* ------------------------------------------------------------- properties
\* The rows of a table, as a set.
Rows(d) == {d[k] : k \in 1..Len(d)}
\* The records the running (or last finished) script inserted.
ThisRun == {r \in Rows(db) : r.chunk_metadata.ingestion_date = runs}
\* The number of chunks of the source a record belongs to, from its metadata.
TotalChunks(r) ==
  IF "total_chunks" \in DOMAIN r.chunk_metadata THEN r.chunk_metadata.total_chunks
  ELSE r.chunk_metadata.total_chunks_in_row
\* The faults of the running script.
RunFaults == faults - script.faultsBefore

\* C1: when ingestFile throws for one file, ingestDirectory records a failure
\* for it and still processes the remaining files: the list the feed script
\* gets has one record per file found.
C1_OneRecordPerFileFound ==
  (out.name = "feed" /\ out.exit = "ok") => Len(out.results) = out.found

\* The identifier ingestSitemap reports a URL under.
ReportedAs(url) == IF isValidUrl(url) THEN normalizeUrl(url) ELSE url
\* results holds one record for each of the first n URLs, in sitemap order,
\* and a failed page carries its error.
RecordsForUrls(results, urls, n) ==
  /\ Len(results) = n
  /\ \A k \in 1..n :
       /\ results[k].filename = ReportedAs(urls[k].loc)
       /\ ~results[k].success => results[k].error # ""
\* feed-sitemap got one record per extracted URL from ingestSitemap.
FullSitemapReport ==
  /\ out.exit = "ok"
  /\ RecordsForUrls(out.results, extractAllUrls(out.source), out.found)

\* C2 as stated: once URL extraction and the browser launch have succeeded,
\* ingestSitemap returns exactly one record per extracted URL, in sitemap
\* order, whatever pages fail.
C2_OneRecordPerUrlOnceLaunched ==
  (out.name = "feed-sitemap" /\ out.found > 0 /\ out.browser # "none") => FullSitemapReport

\* C2 amended: once the per-URL loop is entered (URL extraction, browser
\* launch, newPage and initializeQuestionGenerator have succeeded) ingestSitemap
\* holds one record per URL handled so far and returns exactly one record per
\* extracted URL, in sitemap order, a failed page with its error.
C2_OneRecordPerUrlOnceLooping ==
  /\ (pc \in {"site.page", "site.embed", "site.questions", "site.qembed", "site.insert"}) =>
       (site.looped /\ RecordsForUrls(site.results, site.sitemapUrls, site.i))
  /\ (pc \in {"site.finally", "sitemapSummary"} /\ site.looped) =>
       (site.pending = "return" /\ RecordsForUrls(site.results, site.sitemapUrls, Len(site.sitemapUrls)))
  /\ (out.name = "feed-sitemap" /\ out.looped) => FullSitemapReport

\* C2 witness: a finished sitemap run in which a page failed inside the loop
\* (not for being invalid or empty) and a later page was ingested.
C2_FailedPageThenIngestedPage ==
  /\ out.name = "feed-sitemap" /\ out.exit = "ok" /\ out.looped
  /\ \E j, k \in 1..Len(out.results) :
       /\ j < k
       /\ ~out.results[j].success
       /\ out.results[j].error \notin {"Invalid URL", "No content extracted"}
       /\ out.results[k].success

\* The chunk <<origin, index>> is stored by this run, without questions.
StoredUnquestioned(key) ==
  \E r \in ThisRun :
    /\ r.origin = key[1] /\ r.chunk_index = key[2]
    /\ r.hypothetical_questions = <<>> /\ r.question_embeddings = <<>>
\* Every chunk of every source this run stored a chunk of is stored.
SourcesComplete ==
  \A r \in ThisRun : \A i \in 0..(TotalChunks(r) - 1) :
    \E q \in ThisRun : q.origin = r.origin /\ q.chunk_index = i
\* The failures a run reports for what the sources hold, not for a fault.
ContentErrors ==
  {"No text content found in file", "No valid chunks created from content",
   "No rows found in CSV file", "Invalid URL", "No content extracted"}
\* The batch went through every source.
BatchComplete(results, n) ==
  /\ Len(results) = n
  /\ \A k \in 1..n : ~results[k].success => results[k].error \in ContentErrors

\* C3: a chunk whose question generation failed is stored with an empty
\* question list and no question embeddings, and in a run whose only faults
\* are such failures every chunk of every source is still ingested.
C3_GenerationFailureKeepsChunk ==
  /\ \A r \in ThisRun :
       <<r.origin, r.chunk_index>> \in genFailed =>
         (r.hypothetical_questions = <<>> /\ r.question_embeddings = <<>>)
  /\ (pc \in {"feedSummary", "sitemapSummary"} /\ genFailed # {} /\ RunFaults = Cardinality(genFailed)) =>
       /\ \A key \in genFailed : StoredUnquestioned(key)
       /\ SourcesComplete
       /\ pc = "feedSummary" => BatchComplete(dir.results, Len(dir.files))
       /\ pc = "sitemapSummary" => BatchComplete(site.results, Len(site.sitemapUrls))

\* C3 witness: a run is over in which generation failed for the first chunk of
\* a source of several chunks, and that chunk and a later one are stored.
C3_FailedChunkAndLaterChunkStored ==
  /\ pc \in {"feedSummary", "sitemapSummary"}
  /\ \E key \in genFailed :
       /\ key[2] = 0
       /\ StoredUnquestioned(key)
       /\ \E q \in ThisRun : q.origin = key[1] /\ q.chunk_index = 1

\* The key merge-db deduplicates on is in the target exactly once.
KeptOnce(doc) ==
  Cardinality({k \in 1..Len(targetDb.documents) : Key(targetDb.documents[k]) = Key(doc)}) = 1
\* The records of the sources on the command line, as <<source, row>> positions.
SourceRecords ==
  UNION {{<<i, j>> : j \in 1..Len(Store(mrg.sourcePaths[i]))} : i \in 1..Len(mrg.sourcePaths)}
RecordAt(p) == Store(mrg.sourcePaths[p[1]])[p[2]]
\* Source-argument order, then row order.
Before(p, q) == p[1] < q[1] \/ (p[1] = q[1] /\ p[2] < q[2])
FirstMet(p) == \A q \in SourceRecords : Key(RecordAt(q)) = Key(RecordAt(p)) => ~Before(q, p)
RECURSIVE SumSkipped(_)
SumSkipped(log) == IF log = <<>> THEN 0 ELSE Head(log).skipped + SumSkipped(Tail(log))
\* The skipped counts reported add up to the records that were not first met.
DuplicatesReported ==
  SumSkipped(mrg.log) = Cardinality({p \in SourceRecords : ~FirstMet(p)})
MergeFinished == pc = "merge.done" /\ out.exit = "ok"

\* C4: after merge-db finishes, every key of any source is in the target's
\* documents table exactly once, also when an insert failed part-way, and the
\* number of dropped duplicates is reported.
C4_ExactlyOneRecordPerKey ==
  MergeFinished =>
    /\ \A p \in SourceRecords : KeptOnce(RecordAt(p))
    /\ DuplicatesReported

\* C5: of several source records with the same key the target keeps the first
\* one met, in source-argument order and then row order; every later one is
\* dropped and counted as skipped.
C5_FirstRecordWins ==
  MergeFinished =>
    /\ \A k \in 1..Len(targetDb.documents) :
         targetDb.documents[k].origin \in SourceRecords /\ FirstMet(targetDb.documents[k].origin)
    /\ DuplicatesReported

\* C6: no two records inserted by one ingestion run share the pair
\* (source identifier, chunk index).
C6_UniqueSourceAndChunkIndex ==
  \A r, q \in ThisRun :
    (r.filename = q.filename /\ r.chunk_index = q.chunk_index) => r.id = q.id

\* The questions and question embeddings of one chunk are aligned: as many,
\* and embedding k is the embedding of the normalized question k.
Aligned(m, questions, embeddings) ==
  /\ Len(embeddings) = Len(questions)
  /\ \A k \in 1..Len(questions) : embeddings[k] = Embed(m, normalizeForEmbedding(questions[k]))

\* The place of the record the running script inserted last. A record is the
\* newest one right after its insertion and is never changed afterwards, so
\* what holds of the newest record in every state holds of every record.
NewestAt == {k \in {Len(db)} : k > 0 /\ db[k].chunk_metadata.ingestion_date = runs}

\* C7: every record inserted by ingestFile, ingestCSV or ingestSitemap has
\* as many question embeddings as questions, in the same order; an empty
\* question list gives an empty embedding list. (Stated of each record as it
\* is inserted.)
C7_QuestionEmbeddingsAligned ==
  \A k \in NewestAt :
    Aligned(db[k].chunk_metadata.embedding_model, db[k].hypothetical_questions, db[k].question_embeddings)

\* C7 witness: the store holds a record with all its generated questions, one
\* with the thesis of its row as only question, and one without questions.
C7_RecordsWithAndWithoutQuestions ==
  /\ \E r \in Rows(db) : Len(r.hypothetical_questions) = QUESTIONS_PER_CHUNK /\ Len(r.question_embeddings) = QUESTIONS_PER_CHUNK
  /\ \E r \in Rows(db) : r.hypothetical_questions = <<>> /\ r.question_embeddings = <<>>
  /\ \E r \in Rows(db) : r.hypothetical_questions = << <<"Q">> >> /\ Len(r.question_embeddings) = 1

\* C8: after a source has been ingested again the store holds only the
\* records of its latest ingestion, never those of two ingestions side by side.
C8_OnlyLatestIngestionOfSource ==
  \A r, q \in Rows(db) :
    r.origin = q.origin => r.chunk_metadata.ingestion_date = q.chunk_metadata.ingestion_date

\* The record comes from the file (a CSV row's origin is the file and the row).
FromFile(r, filePath) ==
  Len(r.origin) >= Len(filePath) /\ SubSeq(r.origin, 1, Len(filePath)) = filePath
\* The file was ingested by an earlier run whose records are in the store.
AlreadyProcessed(filePath) ==
  \E r \in Rows(db) : r.chunk_metadata.ingestion_date < runs /\ FromFile(r, filePath)

\* C9: in --resume mode the feed script does not clear the store and skips
\* the files already processed: such a file inserts no record and is reported
\* with the error text 'Already processed (skipped)'.
C9_ResumeSkipsProcessedFiles ==
  (pc = "feedSummary" /\ script.resumeMode) =>
    \A k \in 1..Len(dir.files) :
      LET filePath == script.source \o dir.files[k]
      IN AlreadyProcessed(filePath) =>
           /\ \A r \in ThisRun : ~FromFile(r, filePath)
           /\ \E j \in 1..Len(dir.results) :
                /\ dir.results[j].filename = Basename(filePath)
                /\ dir.results[j].error = "Already processed (skipped)"

\* C10: the records of a store never carry different embedding-model versions
\* or content embeddings of different dimensions.
C10_OneEmbeddingModelPerStore ==
  \A r, q \in Rows(db) :
    /\ r.chunk_metadata.embedding_model = q.chunk_metadata.embedding_model
    /\ r.embedding.dim = q.embedding.dim

\* The content-delta events of a sequence of events, in order.
Deltas(events) == SelectSeq(events, LAMBDA e : e.type = "content")
\* The positions of the error events of a sequence of events.
ErrorPositions(events) == {k \in 1..Len(events) : events[k].type = "error"}
\* A stream whose model call failed has ended and its client stayed to the end.
FailedStream == srv.pc = "done" /\ srv.failure # "none" /\ ~srv.cancelled

\* C11: the events sent on /ask/stream hold at most one error event and
\* nothing follows it; when the model call fails after n content-delta
\* events the client gets those n events in order, one error event, and the
\* stream is closed.
C11_ErrorEventIsSingleAndLast ==
  /\ Cardinality(ErrorPositions(srv.wire)) <= 1
  /\ \A k \in ErrorPositions(srv.wire) : k = Len(srv.wire)
  /\ FailedStream =>
       /\ SubSeq(srv.wire, 1, Len(srv.wire) - 1) = Deltas(srv.yielded)
       /\ \A k \in 1..(Len(srv.wire) - 1) : srv.wire[k] = ContentDelta(k)
       /\ Len(srv.wire) >= 1 /\ srv.wire[Len(srv.wire)].type = "error"
       /\ srv.controller = "closed"
\* A model call that threw after three content-delta events.
C11_FailedAfterThreeDeltas ==
  /\ FailedStream /\ srv.failure = "thrown"
  /\ Len(srv.wire) = 4 /\ srv.wire[4] \in {ErrorEvent(m) : m \in ErrorMessages}

\* C12: once the client has cancelled /ask/stream the server pulls no further
\* event from streamQuestion, lets go of the generator, and no error leaves
\* the producer loop unhandled.
C12_CancelStopsProducer ==
  srv.cancelled =>
    /\ ~srv.pulledAfterCancel
    /\ ~srv.escaped
    /\ srv.pc = "done" => srv.generator \in {"ended", "returned"}

\* The failure payload that tells nothing about the error behind it.
GenericFailure == [error |-> "Internal server error"]
\* C13: a search, ask or streaming-ask request that fails while being served
\* is answered with a generic failure payload that does not carry the message
\* of the internal error, so failures with different messages are answered
\* alike.
C13_FailurePayloadIsGeneric ==
  /\ srv.response.status = 500 /\ srv.calls # {} => srv.response.body = GenericFailure
  /\ srv.failure = "thrown" => \A k \in ErrorPositions(srv.wire) : srv.wire[k].error \notin ErrorMessages

\* A body that is JSON and holds a non-empty string in the required field.
WellFormed(body) == body.json = "object" /\ body.field.type = "string" /\ body.field.value # ""
\* C14: a request to /search, /ask or /ask/stream whose body is not valid JSON
\* or lacks a non-empty string query/question is answered 400, and no
\* retrieval, embedding or model call is made for it.
C14_InvalidRequestIsRejected ==
  srv.pc # "idle" /\ ~WellFormed(srv.body) => srv.response.status = 400 /\ srv.calls = {}

\* The per-source results of the running (or last finished) script.
Reported == Rows(dir.results) \cup Rows(site.results) \cup Rows(out.results)
\* The names a result may carry for the source of a record: the file's name
\* (a CSV row's origin is the file and the row) or the page's normalized URL.
SourceNames(origin) ==
  {Basename(origin), ReportedAs(origin)}
    \cup (IF Len(origin) > 1 THEN {Basename(SubSeq(origin, 1, Len(origin) - 1))} ELSE {})
\* C15: a source that yields no chunk (empty or whitespace-only text, or an
\* empty chunk list) is reported as failed, with success false and no chunk
\* created, and no record is inserted for it, by ingestFile, ingestCSV and
\* ingestSitemap alike.
C15_ZeroChunkSourceIsReportedFailed ==
  \A r \in Reported :
    r.chunks_created = 0 /\ (r.success \/ r.error \in ContentErrors) =>
      /\ ~r.success
      /\ \A q \in ThisRun : r.filename \notin SourceNames(q.origin)

\* The places in the store of the records of the running (or last finished)
\* script.
ThisRunAt == {k \in 1..Len(db) : db[k].chunk_metadata.ingestion_date = runs}
\* The chunks of the source a record belongs to: the split of its text, or
\* the text itself when the source was kept whole.
ChunksOf(r) == IF TotalChunks(r) = 1 THEN <<r.content>> ELSE SplitIntoChunks(r.content)
\* The record stems from a CSV file with a thesis column.
ThesisRow(r) ==
  /\ "schema_mapping" \in DOMAIN r.chunk_metadata
  /\ r.chunk_metadata.schema_mapping["thesis"] # ""
\* The questions are questions about the chunk (or the thesis of a CSV row).
QuestionsOf(chunk, questions) == questions = QuestionList(chunk, Len(questions))
\* C16: the records of a source ingested into n chunks are inserted with the
\* chunk indices 0..n-1, in increasing order and without gaps, and the record
\* with index i holds the i-th chunk, the embedding of that chunk and the
\* questions of that chunk. (Stated of each record as it is inserted: its
\* index is the number of records its source already has in this run.)
C16_ChunkIndexFollowsInsertionOrder ==
  \A k \in NewestAt :
    LET r == db[k]
        chunks == ChunksOf(r)
    IN /\ r.chunk_index = Cardinality({j \in ThisRunAt : j < k /\ db[j].origin = r.origin})
       /\ r.chunk_index < Len(chunks)
       /\ TotalChunks(r) = Len(chunks)
       /\ r.chunk_text = chunks[r.chunk_index + 1]
       /\ r.embedding = Embed(r.chunk_metadata.embedding_model, normalizeForEmbedding(chunks[r.chunk_index + 1]))
       /\ \/ QuestionsOf(chunks[r.chunk_index + 1], r.hypothetical_questions)
          \/ ThesisRow(r) /\ Len(r.hypothetical_questions) = 1
\* C16 witness: both chunks of a two-chunk source are stored, each with all
\* its questions.
C16_BothChunksStoredWithQuestions ==
  \E r, q \in ThisRun :
    /\ r.origin = q.origin /\ TotalChunks(r) = 2
    /\ r.chunk_index = 0 /\ q.chunk_index = 1 /\ r.id < q.id
    /\ Len(r.hypothetical_questions) = QUESTIONS_PER_CHUNK
    /\ Len(q.hypothetical_questions) = QUESTIONS_PER_CHUNK

\* The text is a source that needs no splitting.
FitsOneChunk(text) == ~Blank(text) /\ Len(text) <= CHUNK_SIZE
\* C17: a non-empty source that is not longer than the chunk-size threshold
\* does not go through the splitter: it gives exactly one chunk, the whole
\* text, with index 0, one content embedding and at most QUESTIONS_PER_CHUNK
\* question embeddings.
C17_ShortSourceIsOneChunk ==
  /\ pc \in {"file.embed", "file.questions", "file.qembed", "file.insert"} /\ FitsOneChunk(file.content) =>
       file.chunks = <<file.content>> /\ Len(file.contentEmbeddings) <= 1
  /\ pc \in {"csv.embed", "csv.questions", "csv.qembed", "csv.insert"} /\ FitsOneChunk(csv.combinedText) =>
       csv.chunks = <<csv.combinedText>>
  /\ pc \in {"site.embed", "site.questions", "site.qembed", "site.insert"} /\ FitsOneChunk(site.extracted.text) =>
       site.chunks = <<site.extracted.text>>
  /\ \A k \in ThisRunAt :
       LET r == db[k] IN
       FitsOneChunk(r.content) =>
         /\ r.chunk_text = r.content /\ r.chunk_index = 0 /\ TotalChunks(r) = 1
         /\ \A j \in ThisRunAt : db[j].origin = r.origin => j = k
         /\ r.embedding.of = normalizeForEmbedding(r.content)
         /\ Len(r.question_embeddings) <= QUESTIONS_PER_CHUNK
\* C17 witness: a text exactly as long as the threshold, white space
\* included, is stored whole with all its question embeddings.
C17_TextAtThresholdStoredWhole ==
  \E r \in ThisRun :
    /\ Len(r.content) = CHUNK_SIZE /\ Trim(r.content) # r.content
    /\ r.chunk_text = r.content /\ r.chunk_index = 0
    /\ Len(r.question_embeddings) = QUESTIONS_PER_CHUNK

\* C18: within one ingestion run at most one call to the embedding or the
\* question-generation backend is in flight at any time: the function waits
\* for each call before it makes the next.
C18_OneBackendCallInFlight ==
  /\ Cardinality(calls.inflight) <= 1
  /\ calls.inflight # {} => calls.suspended /\ calls.inflight = {<<calls.fn, calls.at, calls.i>>}
\* C18 witness: the question embeddings of the second chunk of a file are
\* being computed, every call before them having settled.
C18_LaterCallAlone ==
  /\ calls.fn = "ingestFile" /\ calls.n = 2 /\ calls.qs = <<QUESTIONS_PER_CHUNK, QUESTIONS_PER_CHUNK>>
  /\ calls.inflight = {<<"ingestFile", "qembed", 1>>}

\* The next step of the run calls generateQuestions.
CallsGenerateQuestions ==
  \/ pc \in {"file.questions", "site.questions"}
  \/ pc = "csv.questions" /\ Blank(csv.thesisField)
\* C19: in every ingestion path generateQuestions is called only after
\* initializeQuestionGenerator has completed in that run, also in ingestCSV
\* for a row whose thesis cell is empty in a CSV that has a thesis column.
C19_GeneratorInitializedBeforeUse == CallsGenerateQuestions => qgInit

\* The texts the vectors were computed from are the normalized texts.
EmbeddedNormalized(texts, embeddings) ==
  \A k \in 1..Len(embeddings) : k <= Len(texts) /\ embeddings[k].of = normalizeForEmbedding(texts[k])
\* C20: every text given to generateEmbeddings during ingestion is the output
\* of normalizeForEmbedding, while the chunk text and the questions stored in
\* the record are the original strings, not normalized.
C20_EmbeddedTextIsNormalized ==
  /\ pc \in {"file.questions", "file.qembed", "file.insert"} =>
       /\ EmbeddedNormalized(file.chunks, file.contentEmbeddings)
       /\ \A i \in 1..Len(file.allQuestionEmbeddings) :
            EmbeddedNormalized(file.allQuestions[i], file.allQuestionEmbeddings[i])
  /\ pc \in {"csv.questions", "csv.qembed", "csv.insert"} =>
       EmbeddedNormalized(<<csv.chunks[csv.chunkIdx + 1]>>, <<csv.chunkEmbedding>>)
  /\ pc = "csv.insert" => EmbeddedNormalized(csv.questions, csv.questionEmbeddings)
  /\ pc \in {"site.questions", "site.qembed", "site.insert"} =>
       EmbeddedNormalized(<<site.chunks[site.chunkIdx + 1]>>, <<site.chunkEmbedding>>)
  /\ pc = "site.insert" => EmbeddedNormalized(site.questions, site.questionEmbeddings)
  /\ \A k \in NewestAt :
       LET r == db[k] IN
       /\ r.chunk_text = ChunksOf(r)[r.chunk_index + 1]
       /\ \/ QuestionsOf(r.chunk_text, r.hypothetical_questions)
          \/ ThesisRow(r) /\ Len(r.hypothetical_questions) = 1
\* C20 witness: a page is stored with its text and questions as they were,
\* while the embedded texts differ from them.
C20_StoredOriginalEmbeddedNormalized ==
  \E r \in ThisRun :
    /\ "source_url" \in DOMAIN r.chunk_metadata
    /\ r.embedding.of # r.chunk_text
    /\ Len(r.hypothetical_questions) = QUESTIONS_PER_CHUNK
    /\ \A k \in 1..QUESTIONS_PER_CHUNK :
         r.question_embeddings[k].of # r.hypothetical_questions[k]

\* The chunks of the store the request met that reach the threshold the
\* handler passed on.
Qualifying == {k \in 1..Len(srv.store) : srv.store[k] >= srv.similarityThreshold}
\* A /search request has been answered without searchSimilar throwing.
SearchAnswered == srv.pc = "done" /\ srv.route = "/search" /\ "searchSimilar" \in srv.calls /\ ~srv.threw
\* C21: a /search request against an empty store, or one for which no chunk
\* reaches the threshold, gets a success response with an empty results list
\* that echoes the query, not an error response.
C21_EmptyResultIsSuccess ==
  SearchAnswered /\ Qualifying = {} =>
    /\ srv.response.status = 200
    /\ srv.response.body = [results |-> <<>>, query |-> srv.body.field.value]
\* C21 witness: a search with threshold 0.9 on a store whose best chunk scores
\* 0.5 has been answered.
C21_BestMatchBelowThreshold ==
  /\ SearchAnswered /\ srv.store = <<5>> /\ srv.similarityThreshold = 9
  /\ srv.response.status = 200 /\ srv.response.body.results = <<>>

\* A handler has started on a request, or a retrieval or synthesis call was made.
HandlerRan == srv.pc # "idle" \/ srv.calls # {}
\* C22: each of the database, the embedding model and the language model is
\* initialized at most once per process, and whenever a handler of /search,
\* /ask or /ask/stream runs, all three initializations have completed exactly
\* once each, the handler adding none.
C22_InitializedOnceBeforeServing ==
  /\ \A i \in DOMAIN srv.inits : srv.inits[i] <= 1
  /\ HandlerRan => ~srv.exited /\ srv.boot > Len(Initializers) /\ \A i \in DOMAIN srv.inits : srv.inits[i] = 1
\* C22 witness: an /ask request has made its synthesis call on a server that
\* completed its three initializations.
C22_ServedAfterStartup ==
  /\ srv.pc = "done" /\ srv.calls # {} /\ srv.route = "/ask"
  /\ \A i \in DOMAIN srv.inits : srv.inits[i] = 1

\* The value the claim expects the handler to pass on for an optional field.
Requested(x, default) == IF x.type = "number" THEN x.num ELSE default
\* C23: in the three handlers a topK or similarityThreshold supplied as a
\* number is the value passed on to retrieval, for every number including 0
\* and negative thresholds; the default is used only when the field is absent
\* or not a number.
C23_SuppliedNumberIsPassed ==
  srv.calls # {} =>
    /\ srv.topK = Requested(srv.body.topK, DEFAULT_TOP_K)
    /\ srv.similarityThreshold = Requested(srv.body.similarityThreshold, SIMILARITY_THRESHOLD)

\* No sitemap URL was fetched twice.
FetchedOnce == \A i, j \in DOMAIN crawl.fetched : crawl.fetched[i].url = crawl.fetched[j].url => i = j
\* No sitemap was fetched at a depth beyond maxDepth.
FetchedWithinDepth == \A i \in DOMAIN crawl.fetched : crawl.fetched[i].depth <= crawl.maxDepth
\* The URLs of every regular sitemap that was fetched are in the result, and
\* every sitemap listed by a fetched index above the depth limit was visited,
\* whatever happened to the sitemaps listed before it.
OthersReturned ==
  \A i \in DOMAIN crawl.fetched :
    LET f == crawl.fetched[i]
        xmlContent == DocumentAt(crawl.web, f.url)
    IN f.ok =>
         IF isSitemapIndex(xmlContent)
         THEN f.depth < crawl.maxDepth =>
                \A k \in DOMAIN parseSitemapIndex(xmlContent) : parseSitemapIndex(xmlContent)[k] \in crawl.visitedSitemaps
         ELSE \A k \in DOMAIN parseSitemap(xmlContent) :
                \E n \in DOMAIN crawl.allUrls : crawl.allUrls[n] = parseSitemap(xmlContent)[k]
\* C24: extractAllUrls terminates on every sitemap graph, cyclic and
\* self-referencing indexes included; it fetches each sitemap URL at most
\* once and none at a depth beyond maxDepth, and what it returns holds the
\* URLs of every sitemap it could fetch although others failed.
C24_ExtractAllUrlsTerminates ==
  /\ [](FetchedOnce /\ FetchedWithinDepth /\ (crawl.pc = "returned" => OthersReturned))
  /\ (crawl.pc = "running" ~> crawl.pc = "returned")
\* C24 witness: the call on the cyclic web has returned; a fetch failed, and
\* the URL of a sitemap fetched after it, two indexes down, is in the result.
C24_ReturnedDespiteFailureAndCycle ==
  /\ crawl.pc = "returned" /\ crawl.web = "cyclic"
  /\ \E i, j \in DOMAIN crawl.fetched :
       /\ i < j /\ ~crawl.fetched[i].ok
       /\ crawl.fetched[j].ok /\ crawl.fetched[j].url = SitemapXml /\ crawl.fetched[j].depth > crawl.fetched[i].depth
  /\ \E n \in DOMAIN crawl.allUrls : crawl.allUrls[n] = UrlLong

\* The URL string parses with the http or the https scheme.
IsHttp(urlString) == urlString # <<>> /\ urlString[1] \in {"http:", "https:"}
\* ingestSitemap is working on a page: a model call or the insert is next.
SiteModelCalls == {"site.embed", "site.questions", "site.qembed", "site.insert"}
\* C25: ingestSitemap never navigates to a URL that does not parse or whose
\* scheme is neither http nor https: the entry gets the failure result
\* 'Invalid URL', and no page load, model call or insert happens for it.
C25_InvalidUrlIsNeverLoaded ==
  /\ \A u \in site.navigated : IsHttp(u)
  /\ \A k \in 1..Len(site.results) :
       ~IsHttp(site.sitemapUrls[k].loc) => site.results[k] = Result(site.sitemapUrls[k].loc, 0, FALSE, "Invalid URL")
  /\ pc \in SiteModelCalls => IsHttp(site.sitemapUrls[site.i + 1].loc)
  /\ \A k \in NewestAt : "sitemap_source" \in DOMAIN db[k].chunk_metadata => IsHttp(db[k].origin)
\* C25 witness: the run is past the ftp URL and the string that is no URL,
\* both reported as invalid, and has loaded the pages before and between them.
C25_InvalidEntriesSkipped ==
  /\ Len(site.results) >= 4
  /\ site.results[2].error = "Invalid URL" /\ site.results[4].error = "Invalid URL"
  /\ site.navigated = {UrlHome, UrlAbout}

\* What is left of a handle once the finally block has run.
AfterFinally == {"none", "closed", "close failed"}
\* C26: on every exit path of ingestSitemap after the browser launch (the
\* return of the results, a failure rethrown as IngestionError) the page and
\* the browser have been closed when the call completes; an error while
\* closing does not replace the result or the error of the call; and when
\* the sitemap yields no URL the browser is never launched.
C26_BrowserClosedOnEveryExit ==
  /\ pc = "sitemapSummary" =>
       /\ site.browser \in AfterFinally /\ site.page \in AfterFinally
       /\ site.looped => site.browser # "none" /\ site.page # "none" /\ Len(site.results) = Len(site.sitemapUrls)
  /\ out.name = "feed-sitemap" =>
       /\ out.browser \in AfterFinally /\ out.page \in AfterFinally
       /\ out.looped => out.browser # "none" /\ out.page # "none"
       /\ out.exit = "fatal" /\ "close failed" \in {out.browser, out.page} => faults > 1
  /\ site.sitemapUrls = <<>> => site.browser = "none" /\ site.page = "none"
\* C26 witness: ingestSitemap returned its five results although closing the
\* page and the browser failed.
C26_ReturnedAlthoughCloseFailed ==
  /\ out.name = "feed-sitemap" /\ out.exit = "ok"
  /\ out.browser = "close failed" /\ out.page = "close failed"
  /\ Len(out.results) = 5

\* C27: a page ingestSitemap reports as failed (success false, chunks_created
\* 0) left no record in the store: the chunks of a page are inserted all or
\* none, so the store grows over a run by the sum of chunks_created over the
\* successful results.
C27_FailedPageLeftNoRecord ==
  (out.name = "feed-sitemap" /\ out.exit = "ok") =>
    /\ out.afterCount - out.beforeCount = out.totalChunks
    /\ \A k \in 1..Len(out.results) :
         ~out.results[k].success =>
           /\ out.results[k].chunks_created = 0
           /\ \A n \in ThisRunAt : db[n].origin # extractAllUrls(out.source)[k].loc

\* The records this run inserted for the file ingestFile is working on.
OfThisFile == {k \in ThisRunAt : db[k].origin = file.filePath}
\* ingestFile is computing embeddings and questions.
FileComputing == {"file.embed", "file.questions", "file.qembed"}
\* C28 as stated: ingestFile inserts no record before the content embeddings,
\* the questions and the question embeddings of all chunks are computed, and
\* a failure of any embedding or question-generation call leaves the store
\* without a record of that file.
C28_FailureLeavesStoreUnchanged ==
  /\ pc \in FileComputing => OfThisFile = {}
  /\ pc \in FileComputing \cup {"file.insert"} =>
       \A g \in genFailed : g[1] = file.filePath => OfThisFile = {}
\* C28 amended: ingestFile inserts no record before the content embeddings,
\* the questions and the question embeddings of all chunks are computed, so
\* an embedding call that throws leaves the store without a record of the
\* file; a question generation that fails gives an empty question list, and
\* the file is stored all the same.
C28_NoInsertBeforeAllComputed ==
  /\ pc \in FileComputing => OfThisFile = {}
  /\ pc = "file.insert" =>
       /\ Len(file.contentEmbeddings) = Len(file.chunks)
       /\ Len(file.allQuestions) = Len(file.chunks)
       /\ Len(file.allQuestionEmbeddings) = Len(file.chunks)
       /\ Cardinality(OfThisFile) = file.i
       /\ \A g \in genFailed : g[1] = file.filePath => file.allQuestions[g[2] + 1] = <<>>
\* C28 witness: the first chunk of a two-chunk file is stored, after the
\* question generation for that chunk had failed.
C28_StoredAfterGenerationFailed ==
  /\ pc = "file.insert" /\ Len(file.chunks) = 2 /\ file.i = 1
  /\ <<file.filePath, 0>> \in genFailed
  /\ OfThisFile # {}

\* The vec_embeddings rows of a documents row: same id.
VecEntries(row) ==
  {k \in 1..Len(targetDb.vec_embeddings) : targetDb.vec_embeddings[k].document_id = row.id}
\* C29: after merge-db finishes, every row of the target's documents table
\* has exactly one vec_embeddings entry, with the same id and the same content
\* vector, and the reported 'Total documents merged' is the number of rows of
\* the documents table, also when single inserts fail.
C29_EveryRowHasItsVector ==
  MergeFinished =>
    /\ \A n \in 1..Len(targetDb.documents) :
         /\ Cardinality(VecEntries(targetDb.documents[n])) = 1
         /\ \A k \in VecEntries(targetDb.documents[n]) :
              targetDb.vec_embeddings[k].embedding = targetDb.documents[n].embedding
    /\ out.totalChunks = Len(targetDb.documents)

\* The number of documents merge-db counted as inserted from source i (0 when
\* the source could not be read).
InsertedFrom(i) ==
  LET entries == SelectSeq(mrg.log, LAMBDA e : e.source = i)
  IN IF entries = <<>> THEN 0 ELSE entries[1].inserted
\* C30: a source database that cannot be opened or read does not abort
\* merge-db: the remaining sources are still merged, and the 'Documents by
\* source' summary reports for each source path the number of documents
\* inserted from that very source.
C30_SummaryNamesTheRightSource ==
  MergeFinished =>
    /\ mrg.i = Len(mrg.sourcePaths)
    /\ \A i \in 1..Len(mrg.sourcePaths) :
         /\ (faults = 0 /\ Readable(mrg.sourcePaths[i])) => \E k \in DOMAIN mrg.log : mrg.log[k].source = i
         /\ i \in DOMAIN out.results /\ out.results[i] = InsertedFrom(i)
====
